---- MODULE Spec2Model ----
(***************************************************************************)
(* The per-event execution engine of hyperfleet-adapter: Executor.Execute  *)
(* and CreateHandler (internal/executor/executor.go), the precondition     *)
(* executor and the post-action executor.  One Execute call is a sequence  *)
(* of steps; every collaborator call (HTTP API, resource apply) is one     *)
(* step whose outcome the environment chooses.                             *)
(***************************************************************************)
EXTENDS Integers, Sequences, FiniteSets, TLC

VARIABLES
    config,           \* e.config.AdapterConfig.Spec, shared and read-only
    pc,               \* position of the handler inside Execute
    evt,              \* the event being processed
    execCtx,          \* *ExecutionContext of the current event
    result,           \* *ExecutionResult of the current event
    results,          \* the `results` local of the running ExecuteAll
    precondOutcome,   \* *PreconditionsOutcome returned by the precondition phase
    phaseErr,         \* the `err` returned by the running (or last) ExecuteAll
    handlerReturn,    \* what the handler of CreateHandler returned
    trace             \* the steps taken for this event, in order of execution

\* The module holds seven state machines over disjoint groups of variables:
\* the execution engine (Spec), concurrent Execute calls over a heap of shared
\* objects (SpecConc), the deep copier (SpecCopy), the ManifestWork builder
\* (SpecWork), the health server (SpecHealth), the payload builder (SpecBuild)
\* and the field capture (SpecCapture).  A machine leaves the variables of the others untouched.
VARIABLES
    heap,             \* the objects of the process: maps and slices, by address
    tasks,            \* SpecConc: the concurrent Execute calls, by task
    templates,        \* SpecConc: the trees of the configuration at start-up
    original,         \* SpecCopy: the argument of deepCopyMap
    copied,           \* SpecCopy: the value deepCopyMap returned
    snapshot,         \* SpecCopy: the tree of the argument when it was copied
    edits,            \* SpecCopy: number of writes made to the copy
    work,             \* SpecWork: the arguments and the result of buildManifestWork
    health,           \* SpecHealth: the health server and the calls made to it
    builder,          \* SpecBuild: the arguments and the result of buildPayload
    lookup            \* SpecCapture: the arguments and the result of captureFieldFromData

execVars == <<config, pc, evt, execCtx, result, results, precondOutcome, phaseErr,
              handlerReturn, trace>>
concVars == <<tasks, templates>>
copyVars == <<original, copied, snapshot, edits>>

vars == <<execVars, heap, concVars, copyVars, work, health, builder, lookup>>

\* what each machine leaves untouched
notExecVars == <<heap, concVars, copyVars, work, health, builder, lookup>>
notConcVars == <<execVars, copyVars, work, health, builder, lookup>>
notCopyVars == <<execVars, concVars, work, health, builder, lookup>>
notWorkVars == <<execVars, heap, concVars, copyVars, health, builder, lookup>>
notHealthVars == <<execVars, heap, concVars, copyVars, work, builder, lookup>>
notCaptureVars == <<execVars, heap, concVars, copyVars, work, health, builder>>
notBuildVars == <<execVars, concVars, copyVars, work, health, lookup>>

----------------------------------------------------------------------------
(* Bounds of the model *)

\* longest list of preconditions in a configuration
MaxPre == 3
\* longest list of resources in a configuration
MaxRes == 2

----------------------------------------------------------------------------
(* Constants of the executor package *)

StatusSuccess == "success"
StatusFailed == "failed"

PhaseParamExtraction == "param_extraction"
PhasePreconditions == "preconditions"
PhaseResources == "resources"
PhasePostActions == "post_actions"
\* zero value of ExecutionResult.Phase
PhaseUnset == ""

----------------------------------------------------------------------------
(* Dynamic values: a JSON tree is a string leaf or a map of trees *)

Str(s) == [s |-> s]
Map(f) == [m |-> f]
IsMap(n) == "m" \in DOMAIN n
IsRef(v) == "ref" \in DOMAIN v
EmptyFn == [x \in {} |-> x]
EmptyMap == Map(EmptyFn)
MapSet(f, k, v) == [x \in DOMAIN f \cup {k} |-> IF x = k THEN v ELSE f[x]]

\* encoding/json.Unmarshal into a map[string]interface{}, on the texts the
\* model uses: an object decodes to a map, null to a nil map (read as empty),
\* anything else is an error
JSONUnmarshalMap(text) ==
    CASE text = "{}" -> [err |-> FALSE, value |-> EmptyMap]
      [] text = "null" -> [err |-> FALSE, value |-> EmptyMap]
      [] text = "{id:c-1}" ->
            [err |-> FALSE, value |-> Map([id |-> Str("c-1")])]
      [] text = "{region:eu}" ->
            [err |-> FALSE, value |-> Map([region |-> Str("eu")])]
      [] text = "{status:Ready,id:c-1}" ->
            [err |-> FALSE, value |-> Map([status |-> Str("Ready"), id |-> Str("c-1")])]
      [] text = "{status:Pending,id:c-1}" ->
            [err |-> FALSE, value |-> Map([status |-> Str("Pending"), id |-> Str("c-1")])]
      [] text = "{status:Ready}" ->
            [err |-> FALSE, value |-> Map([status |-> Str("Ready")])]
      [] OTHER -> [err |-> TRUE, value |-> EmptyMap]

----------------------------------------------------------------------------
(* Errors *)

NilError == [Phase |-> "", Step |-> "", Message |-> ""]
NewExecutorError(phase, step, message) ==
    [Phase |-> phase, Step |-> step, Message |-> message]

\* a nil *ExecutionError
NoExecutionError == [Phase |-> "", Step |-> "", Message |-> ""]

----------------------------------------------------------------------------
(* Events *)

NilEvent == [isNil |-> TRUE, id |-> "", data |-> ""]
EventDatas == {"", "{}", "null", "{id:c-1}", "{region:eu}", "[1]", "{bad"}
Events == {NilEvent} \cup {[isNil |-> FALSE, id |-> "evt-1", data |-> d] : d \in EventDatas}

\* mutant: data that does not decode is read as an empty map
parseEventData_Lenient(e) ==
    IF e.isNil \/ e.data = "" THEN [err |-> FALSE, value |-> EmptyMap]
    ELSE [err |-> FALSE, value |-> JSONUnmarshalMap(e.data).value]

\* parseEventData: no event or no data is an empty map, else the data must
\* decode to a map
parseEventData(e) ==
    IF e.isNil THEN [err |-> FALSE, value |-> EmptyMap]
    ELSE IF e.data = "" THEN [err |-> FALSE, value |-> EmptyMap]
    ELSE JSONUnmarshalMap(e.data)

\* a formatted not-met reason: the precondition's name and the list of details
\* that formatConditionDetails joins; the empty string is NoReason
NoReason == [Precondition |-> "", Details |-> <<>>]

----------------------------------------------------------------------------
(* Execution context *)

NewAdapterMetadata ==
    [ExecutionError |-> NoExecutionError, ExecutionStatus |-> StatusSuccess,
     ErrorReason |-> "", ErrorMessage |-> "",
     ResourcesSkipped |-> FALSE, SkipReason |-> "", SkipMessage |-> NoReason]

\* the execution context of no event (a nil pointer)
NilContext ==
    [exists |-> FALSE, EventData |-> EmptyMap, Params |-> EmptyFn,
     Adapter |-> NewAdapterMetadata, Evaluations |-> <<>>]

NewExecutionContext(eventData) ==
    [exists |-> TRUE, EventData |-> eventData, Params |-> EmptyFn,
     Adapter |-> NewAdapterMetadata, Evaluations |-> <<>>]

SetError(ctx, reason, message) ==
    [ctx EXCEPT !.Adapter.ExecutionStatus = StatusFailed,
                !.Adapter.ErrorReason = reason,
                !.Adapter.ErrorMessage = message]

SetSkipped(ctx, reason, message) ==
    [ctx EXCEPT !.Adapter.ExecutionStatus = StatusSuccess,
                !.Adapter.ResourcesSkipped = TRUE,
                !.Adapter.SkipReason = reason,
                !.Adapter.SkipMessage = message]

SetExecutionError(ctx, phase, step, message) ==
    [ctx EXCEPT !.Adapter.ExecutionError =
        [Phase |-> phase, Step |-> step, Message |-> message]]

AddConditionsEvaluation(ctx, phase, name, matched, fieldResults) ==
    [ctx EXCEPT !.Evaluations = Append(@,
        [Phase |-> phase, Name |-> name, Type |-> "conditions",
         Matched |-> matched, Expression |-> "", FieldResults |-> fieldResults])]

AddCELEvaluation(ctx, phase, name, expression, matched) ==
    [ctx EXCEPT !.Evaluations = Append(@,
        [Phase |-> phase, Name |-> name, Type |-> "cel",
         Matched |-> matched, Expression |-> expression, FieldResults |-> <<>>])]

----------------------------------------------------------------------------
(* Field capture *)

\* captureFieldFromData: follow the parts of a dotted path through nested maps
RECURSIVE CaptureWalk(_, _, _)
CaptureWalk(current, parts, i) ==
    IF i > Len(parts) THEN [err |-> FALSE, value |-> current]
    ELSE IF IsMap(current)
         THEN IF parts[i] \in DOMAIN current.m
              THEN CaptureWalk(current.m[parts[i]], parts, i + 1)
              ELSE [err |-> TRUE, value |-> Str("")]
         ELSE [err |-> TRUE, value |-> Str("")]

\* mutant: a failed lookup returns the node where the walk stopped
captureFieldFromData_Lenient(data, path) ==
    [CaptureWalk(data, path, 1) EXCEPT !.err = FALSE]

captureFieldFromData(data, path) == CaptureWalk(data, path, 1)

----------------------------------------------------------------------------
(* Parameter extraction *)

\* the extraction rules of the configuration: name, dotted source path in the
\* event data, required or optional
ConfigParams ==
    << [Name |-> "region", Source |-> <<"region">>, Required |-> FALSE],
       [Name |-> "clusterId", Source |-> <<"id">>, Required |-> TRUE] >>

RECURSIVE ExtractFrom(_, _, _)
ExtractFrom(ctx, rules, k) ==
    IF k > Len(rules) THEN [err |-> NilError, ctx |-> ctx]
    ELSE LET got == captureFieldFromData(ctx.EventData, rules[k].Source)
         IN IF got.err
            THEN IF rules[k].Required
                 THEN [err |-> NewExecutorError(PhaseParamExtraction, rules[k].Name,
                                                "required parameter missing"),
                       ctx |-> ctx]
                 ELSE ExtractFrom(ctx, rules, k + 1)
            ELSE ExtractFrom([ctx EXCEPT !.Params = MapSet(@, rules[k].Name, got.value)],
                             rules, k + 1)

extractConfigParams(ctx) == ExtractFrom(ctx, ConfigParams, 1)

addMetadataParams(ctx) ==
    [ctx EXCEPT !.Params = MapSet(@, "metadata", Str("adapter"))]

executeParamExtraction(ctx) ==
    LET r == extractConfigParams(ctx)
    IN IF r.err # NilError THEN r
       ELSE [err |-> NilError, ctx |-> addMetadataParams(r.ctx)]

----------------------------------------------------------------------------
(* Condition evaluator: structured conditions and CEL expressions *)

Operators == {"equals", "exists"}

\* one structured condition against params: a missing field does not match
\* (except under exists, which tests presence)
EvaluateCondition(params, c) ==
    LET present == c.Field \in DOMAIN params
        actual == IF present THEN params[c.Field] ELSE Str("<absent>")
        matched == IF c.Operator = "exists" THEN present
                   ELSE present /\ ~IsMap(actual) /\ actual.s = c.Value
    IN [Field |-> c.Field, Operator |-> c.Operator, ExpectedValue |-> c.Value,
        FieldValue |-> actual, Matched |-> matched]

\* all conditions, AND-ed; an operator outside the closed set is an error
EvaluateConditionsWithResult(params, conds) ==
    IF \E k \in 1..Len(conds) : conds[k].Operator \notin Operators
    THEN [err |-> TRUE, Matched |-> FALSE, Results |-> <<>>]
    ELSE LET rs == [k \in 1..Len(conds) |-> EvaluateCondition(params, conds[k])]
         IN [err |-> FALSE, Matched |-> \A k \in 1..Len(conds) : rs[k].Matched,
             Results |-> rs]

NoCELResult == [set |-> FALSE, Matched |-> FALSE, ErrorReason |-> ""]

\* a CEL expression against params: a compile failure is an error; a runtime
\* error (a missing key) is a result with matched=false and an error reason
EvaluateCEL(params, expr) ==
    CASE expr = "clusterPhase == Ready" ->
            IF "clusterPhase" \in DOMAIN params
            THEN [err |-> FALSE,
                  res |-> [set |-> TRUE,
                           Matched |-> /\ ~IsMap(params["clusterPhase"])
                                       /\ params["clusterPhase"].s = "Ready",
                           ErrorReason |-> ""]]
            ELSE [err |-> FALSE,
                  res |-> [set |-> TRUE, Matched |-> FALSE,
                           ErrorReason |-> "no such key: clusterPhase"]]
      [] expr = "true" ->
            [err |-> FALSE, res |-> [set |-> TRUE, Matched |-> TRUE, ErrorReason |-> ""]]
      [] OTHER -> [err |-> TRUE, res |-> NoCELResult]

HasError(cel) == cel.ErrorReason # ""

----------------------------------------------------------------------------
(* API calls *)

\* what the HTTP collaborator can answer to one call
APIResponses ==
    {[transportErr |-> TRUE, StatusCode |-> 0, Body |-> ""],
     [transportErr |-> FALSE, StatusCode |-> 500, Body |-> "{bad"]}
    \cup {[transportErr |-> FALSE, StatusCode |-> 200, Body |-> b] :
            b \in {"{status:Ready,id:c-1}", "{status:Pending,id:c-1}",
                   "{status:Ready}", "[1]", "", "7", "{bad"}}

\* no call is made, so there is nothing to answer
NoResponse == [transportErr |-> FALSE, StatusCode |-> 0, Body |-> ""]
AnswersTo(apiCall) == IF apiCall THEN APIResponses ELSE {NoResponse}

\* what the HTTP collaborator can answer to a post action's call
PostResponses ==
    {[transportErr |-> TRUE, StatusCode |-> 0, Body |-> ""],
     [transportErr |-> FALSE, StatusCode |-> 500, Body |-> "{bad"],
     [transportErr |-> FALSE, StatusCode |-> 200, Body |-> "{}"]}
PostAnswersTo(apiCall) == IF apiCall THEN PostResponses ELSE {NoResponse}

IsSuccess(resp) == resp.StatusCode >= 200 /\ resp.StatusCode < 300

\* ValidateAPIResponse: a transport error or a non-2xx status is an APIError
ValidateAPIResponse(resp) ==
    IF resp.transportErr THEN "transport"
    ELSE IF ~IsSuccess(resp) THEN "status"
    ELSE ""

----------------------------------------------------------------------------
(* Preconditions *)

NewPreconditionResult(name) ==
    [Name |-> name, Status |-> StatusSuccess, Matched |-> FALSE,
     CapturedFields |-> EmptyFn, APICallMade |-> FALSE, APIResponse |-> "",
     ConditionResults |-> <<>>, CELResult |-> NoCELResult, Error |-> NilError]

\* mutant: a name that is already captured keeps its first value
BindCapture_KeepEarlier(acc, name, value) ==
    IF name \in DOMAIN acc.captured THEN acc
    ELSE [captured |-> MapSet(acc.captured, name, value),
          params |-> MapSet(acc.params, name, value)]

\* the two assignments of the capture loop: the value is stored under the
\* capture's name in the record and in params, over any earlier value
BindCapture(acc, name, value) ==
    [captured |-> MapSet(acc.captured, name, value),
     params |-> MapSet(acc.params, name, value)]

\* mutant: the capture loop ends at the first capture that fails
RECURSIVE ApplyCaptures_StopAtFailure(_, _, _, _)
ApplyCaptures_StopAtFailure(captures, k, responseData, acc) ==
    IF k > Len(captures) THEN acc
    ELSE LET got == captureFieldFromData(responseData, captures[k].Field)
         IN IF got.err
            THEN acc
            ELSE ApplyCaptures_StopAtFailure(captures, k + 1, responseData,
                    BindCapture(acc, captures[k].Name, got.value))

\* the capture loop of executePrecondition: a failed capture is skipped
RECURSIVE ApplyCaptures(_, _, _, _)
ApplyCaptures(captures, k, responseData, acc) ==
    IF k > Len(captures) THEN acc
    ELSE LET got == captureFieldFromData(responseData, captures[k].Field)
         IN IF got.err
            THEN ApplyCaptures(captures, k + 1, responseData, acc)
            ELSE ApplyCaptures(captures, k + 1, responseData,
                    BindCapture(acc, captures[k].Name, got.value))

\* mutant: a precondition without conditions and expression does not match
TriviallyMatched_NotMatched(r) == [r EXCEPT !.Matched = FALSE]

\* executePrecondition, no conditions specified: considered matched
TriviallyMatched(r) == [r EXCEPT !.Matched = TRUE]

\* mutant: the evaluation of the conditions is not recorded in the context
RecordConditionsEvaluation_Skip(precond, ctx, condResult) == ctx

\* executePrecondition, after the structured conditions were evaluated: one
\* record of the evaluation is added to the execution context
RecordConditionsEvaluation(precond, ctx, condResult) ==
    AddConditionsEvaluation(ctx, PhasePreconditions, precond.Name,
                            condResult.Matched, condResult.Results)

\* mutant: the expression is preferred to the structured conditions
EvaluationMode_ExpressionFirst(precond) ==
    IF precond.Expression # "" THEN "expression"
    ELSE IF Len(precond.Conditions) > 0 THEN "conditions"
    ELSE "none"

\* executePrecondition, the if / else if / else of step 3
EvaluationMode(precond) ==
    IF Len(precond.Conditions) > 0 THEN "conditions"
    ELSE IF precond.Expression # "" THEN "expression"
    ELSE "none"

\* step 3 of executePrecondition: structured conditions, else the CEL
\* expression, else trivially matched
EvaluatePrecondition(precond, ctx, r) ==
    IF EvaluationMode(precond) = "conditions"
    THEN LET condResult == EvaluateConditionsWithResult(ctx.Params, precond.Conditions)
         IN IF condResult.err
            THEN [result |-> [r EXCEPT !.Status = StatusFailed,
                                       !.Error = NewExecutorError("", "", "evaluation error")],
                  err |-> NewExecutorError(PhasePreconditions, precond.Name,
                                           "condition evaluation failed"),
                  ctx |-> ctx]
            ELSE [result |-> [r EXCEPT !.Matched = condResult.Matched,
                                       !.ConditionResults = condResult.Results],
                  err |-> NilError,
                  ctx |-> RecordConditionsEvaluation(precond, ctx, condResult)]
    ELSE IF EvaluationMode(precond) = "expression"
    THEN LET cel == EvaluateCEL(ctx.Params, precond.Expression)
         IN IF cel.err
            THEN [result |-> [r EXCEPT !.Status = StatusFailed,
                                       !.Error = NewExecutorError("", "", "CEL compile error")],
                  err |-> NewExecutorError(PhasePreconditions, precond.Name,
                                           "CEL expression evaluation failed"),
                  ctx |-> ctx]
            ELSE [result |-> [r EXCEPT !.Matched = cel.res.Matched,
                                       !.CELResult = cel.res],
                  err |-> NilError,
                  ctx |-> AddCELEvaluation(ctx, PhasePreconditions, precond.Name,
                                           precond.Expression, cel.res.Matched)]
    ELSE [result |-> TriviallyMatched(r), err |-> NilError, ctx |-> ctx]

\* mutant: the API call failure is not recorded in the adapter metadata
APICallFailure_NoExecutionError(precond, ctx, r0, apiErr) ==
    [result |-> [r0 EXCEPT !.Status = StatusFailed,
                           !.Error = NewExecutorError("", "", apiErr)],
     err |-> NewExecutorError(PhasePreconditions, precond.Name, "API call failed"),
     ctx |-> ctx]

\* executePrecondition, the API call failed: the record is failed, the
\* execution error is set, the step returns an error
APICallFailure(precond, ctx, r0, apiErr) ==
    [result |-> [r0 EXCEPT !.Status = StatusFailed,
                           !.Error = NewExecutorError("", "", apiErr)],
     err |-> NewExecutorError(PhasePreconditions, precond.Name, "API call failed"),
     ctx |-> SetExecutionError(ctx, PhasePreconditions, precond.Name, apiErr)]

\* executePrecondition: optional API call, JSON decoding of the body, captures,
\* then the evaluation; resp is the collaborator's answer to the API call
\* mutant: a response that does not decode is a precondition that did not
\* match
DecodeFailure_Mismatch(precond, ctx, r1) ==
    [result |-> r1, err |-> NilError, ctx |-> ctx]

\* executePrecondition when json.Unmarshal of the response fails: the record
\* is failed, the execution error is set and an executor error is returned
DecodeFailure(precond, ctx, r1) ==
    [result |-> [r1 EXCEPT !.Status = StatusFailed,
                           !.Error = NewExecutorError("", "",
                                "failed to parse API response as JSON")],
     err |-> NewExecutorError(PhasePreconditions, precond.Name,
                              "failed to parse API response"),
     ctx |-> SetExecutionError(ctx, PhasePreconditions, precond.Name,
                               "invalid JSON")]

executePrecondition(precond, ctx, resp) ==
    LET r0 == NewPreconditionResult(precond.Name)
    IN IF ~precond.APICall THEN EvaluatePrecondition(precond, ctx, r0)
       ELSE IF ValidateAPIResponse(resp) # ""
       THEN APICallFailure(precond, ctx, r0, ValidateAPIResponse(resp))
       ELSE LET r1 == [r0 EXCEPT !.APICallMade = TRUE, !.APIResponse = resp.Body]
                decoded == JSONUnmarshalMap(resp.Body)
            IN IF decoded.err
               THEN DecodeFailure(precond, ctx, r1)
               ELSE LET cap == ApplyCaptures(precond.Capture, 1, decoded.value,
                                  [captured |-> r1.CapturedFields, params |-> ctx.Params])
                    IN EvaluatePrecondition(precond,
                          [ctx EXCEPT !.Params = cap.params],
                          [r1 EXCEPT !.CapturedFields = cap.captured])

\* mutant: the CEL error is left out of the details
formatConditionDetails_NoCELError(r) ==
    LET unmatched == SelectSeq(r.ConditionResults, LAMBDA cr : ~cr.Matched)
        details == [k \in 1..Len(unmatched) |->
                      [kind |-> "condition", text |-> unmatched[k].Field]]
    IN IF Len(details) = 0
       THEN << [kind |-> "none", text |-> "no specific details available"] >>
       ELSE details

\* the list of details formatConditionDetails joins with "; "
formatConditionDetails(r) ==
    LET celDetails == IF r.CELResult.set /\ HasError(r.CELResult)
                      THEN << [kind |-> "CEL error", text |-> r.CELResult.ErrorReason] >>
                      ELSE << >>
        unmatched == SelectSeq(r.ConditionResults, LAMBDA cr : ~cr.Matched)
        condDetails == [k \in 1..Len(unmatched) |->
                          [kind |-> "condition", text |-> unmatched[k].Field]]
        details == celDetails \o condDetails
    IN IF Len(details) = 0
       THEN << [kind |-> "none", text |-> "no specific details available"] >>
       ELSE details

NoOutcome ==
    [set |-> FALSE, AllMatched |-> FALSE, Results |-> <<>>, Error |-> NilError,
     NotMetReason |-> NoReason]

\* mutant: the list is walked from its end
NextIndex_Reverse(list, rs) == Len(list) - Len(rs)

\* the position of a for-range loop that has appended one record per iteration
NextIndex(list, rs) == Len(rs) + 1

\* mutant: a mismatch is reported only once every precondition has run
LoopOutcome_NoShortCircuit(precond, x, rs) ==
    IF x.err # NilError
    THEN [set |-> TRUE, AllMatched |-> FALSE, Results |-> rs,
          Error |-> x.err, NotMetReason |-> NoReason]
    ELSE IF Len(rs) = Len(config.Preconditions)
            /\ \E k \in 1..Len(rs) : ~rs[k].Matched
    THEN [set |-> TRUE, AllMatched |-> FALSE, Results |-> rs,
          Error |-> NilError,
          NotMetReason |-> [Precondition |-> precond.Name,
                            Details |-> formatConditionDetails(x.result)]]
    ELSE NoOutcome

\* PreconditionExecutor.ExecuteAll, after one iteration: return on an error,
\* return on a precondition that did not match, else go on (no outcome yet)
LoopOutcome(precond, x, rs) ==
    IF x.err # NilError
    THEN [set |-> TRUE, AllMatched |-> FALSE, Results |-> rs,
          Error |-> x.err, NotMetReason |-> NoReason]
    ELSE IF ~x.result.Matched
    THEN [set |-> TRUE, AllMatched |-> FALSE, Results |-> rs,
          Error |-> NilError,
          NotMetReason |-> [Precondition |-> precond.Name,
                            Details |-> formatConditionDetails(x.result)]]
    ELSE NoOutcome

\* mutant: the outcome after the loop does not say that all matched
AllMatchedOutcome_Unmatched(rs) ==
    [set |-> TRUE, AllMatched |-> FALSE, Results |-> rs, Error |-> NilError,
     NotMetReason |-> NoReason]

\* PreconditionExecutor.ExecuteAll, after the loop: all preconditions matched
AllMatchedOutcome(rs) ==
    [set |-> TRUE, AllMatched |-> TRUE, Results |-> rs, Error |-> NilError,
     NotMetReason |-> NoReason]

----------------------------------------------------------------------------
(* Post actions *)

\* mutant: the built payload is stored as it is, not as a string
JSONString_Raw(tree) == tree

\* json.Marshal of a built payload, kept as the tree it serializes
JSONString(tree) == [json |-> tree]

\* renderTemplate(text, params) on the texts the configurations use: the
\* reference {{ .clusterId }} renders to the param (empty when unset), a text
\* without a reference renders to itself
renderTemplate(text, params) ==
    IF text = "{{ .clusterId }}"
    THEN IF "clusterId" \in DOMAIN params /\ ~IsRef(params["clusterId"])
            /\ "s" \in DOMAIN params["clusterId"]
         THEN params["clusterId"].s
         ELSE ""
    ELSE text

\* the value of a CEL expression of a payload: the expression clusterPhase is
\* the param of that name, a runtime error (no such key) leaves a nil value;
\* any other text does not compile
NilValue == [null |-> TRUE]
EvaluateCELValue(params, expr) ==
    IF expr = "clusterPhase"
    THEN IF "clusterPhase" \in DOMAIN params
         THEN [err |-> FALSE, Value |-> params["clusterPhase"], ErrorReason |-> ""]
         ELSE [err |-> FALSE, Value |-> NilValue,
               ErrorReason |-> "no such key: clusterPhase"]
    ELSE [err |-> TRUE, Value |-> NilValue, ErrorReason |-> ""]

\* mutant: an error reason recorded in the result fails the leaf as well
ExpressionLeaf_FailOnReason(cel) ==
    [v |-> cel.Value, err |-> cel.err \/ cel.ErrorReason # ""]

\* processValue on an expression definition, after EvaluateCEL: an error
\* returned by EvaluateCEL is returned to the caller; an error recorded in the
\* result is only logged and the leaf is result.Value
ExpressionLeaf(cel) == [v |-> cel.Value, err |-> cel.err]

\* val["expression"].(string) succeeds
HasExpression(obj) ==
    /\ IsMap(obj)
    /\ "expression" \in DOMAIN obj.m
    /\ "s" \in DOMAIN obj.m["expression"]

\* processValue on a leaf held by value: an expression definition is
\* evaluated, a string is rendered, anything else is returned as it is
LeafValue(v, params) ==
    IF HasExpression(v)
    THEN ExpressionLeaf(EvaluateCELValue(params, v.m["expression"].s))
    ELSE IF "s" \in DOMAIN v
    THEN [v |-> Str(renderTemplate(v.s, params)), err |-> FALSE]
    ELSE [v |-> v, err |-> FALSE]

\* buildPayload on a definition held by value, a mapping of leaves whose
\* keys hold no template reference: every value is processed, and the first
\* error is returned
PayloadTree(build, params) ==
    [v |-> Map([k \in DOMAIN build.m |-> LeafValue(build.m[k], params).v]),
     err |-> \E k \in DOMAIN build.m : LeafValue(build.m[k], params).err]

\* buildPostPayloads: every payload is built and stored in params under its
\* name; a payload with neither Build nor BuildRefContent is an error, and
\* so is a payload that fails to build
RECURSIVE buildPostPayloads(_, _, _)
buildPostPayloads(payloads, k, ctx) ==
    IF k > Len(payloads) THEN [err |-> FALSE, ctx |-> ctx]
    ELSE IF ~payloads[k].HasBuild /\ ~payloads[k].HasBuildRefContent
         THEN [err |-> TRUE, ctx |-> ctx]
         ELSE LET built == PayloadTree(payloads[k].Build, ctx.Params)
              IN IF built.err
                 THEN [err |-> TRUE, ctx |-> ctx]
                 ELSE buildPostPayloads(payloads, k + 1,
                         [ctx EXCEPT !.Params = MapSet(@, payloads[k].Name,
                                                       JSONString(built.v))])

NewPostActionResult(name) ==
    [Name |-> name, Status |-> StatusSuccess, APICallMade |-> FALSE,
     APIResponse |-> "", HTTPStatus |-> 0, Error |-> NilError]

\* executePostAction with its executeAPICall
executePostAction(action, resp) ==
    LET r0 == NewPostActionResult(action.Name)
    IN IF ~action.APICall THEN [result |-> r0, err |-> NilError]
       ELSE LET r1 == IF resp.transportErr
                      THEN [r0 EXCEPT !.APICallMade = TRUE]
                      ELSE [r0 EXCEPT !.APICallMade = TRUE,
                                      !.APIResponse = resp.Body,
                                      !.HTTPStatus = resp.StatusCode]
            IN IF ValidateAPIResponse(resp) # ""
               THEN [result |-> [r1 EXCEPT !.Status = StatusFailed,
                                           !.Error = NewExecutorError("", "",
                                                        ValidateAPIResponse(resp))],
                     err |-> NewExecutorError(PhasePostActions, action.Name,
                                IF ~resp.transportErr /\ ~IsSuccess(resp)
                                THEN "API call returned non-success status"
                                ELSE "API call failed")]
               ELSE [result |-> r1, err |-> NilError]

----------------------------------------------------------------------------
(* Configurations *)

PreNames == <<"A", "B", "C", "D", "E", "F">>
ResNames == <<"r1", "r2", "r3", "r4", "r5">>

\* the shapes of precondition the configurations are built from: an API call
\* with two captures (the id, then the status) and one structured condition;
\* a CEL expression alone; an API call with two captures of one name and
\* nothing to evaluate (trivially matched); a structured condition whose
\* evaluation is an error; a structured condition together with an expression
PrecondKinds == {"conditions", "expression", "none", "badOperator", "both"}

Precondition(kind, name) ==
    CASE kind = "conditions" ->
            [Name |-> name, APICall |-> TRUE,
             Capture |-> << [Name |-> "apiId", Field |-> <<"id">>],
                            [Name |-> "clusterPhase", Field |-> <<"status">>] >>,
             Conditions |-> << [Field |-> "clusterPhase", Operator |-> "equals",
                                Value |-> "Ready"] >>,
             Expression |-> ""]
      [] kind = "expression" ->
            [Name |-> name, APICall |-> FALSE, Capture |-> << >>,
             Conditions |-> << >>, Expression |-> "clusterPhase == Ready"]
      [] kind = "none" ->
            [Name |-> name, APICall |-> TRUE,
             Capture |-> << [Name |-> "seen", Field |-> <<"status">>],
                            [Name |-> "seen", Field |-> <<"id">>] >>,
             Conditions |-> << >>, Expression |-> ""]
      [] kind = "badOperator" ->
            [Name |-> name, APICall |-> FALSE, Capture |-> << >>,
             Conditions |-> << [Field |-> "clusterId", Operator |-> "sameAs",
                                Value |-> "c-1"] >>,
             Expression |-> ""]
      [] kind = "both" ->
            [Name |-> name, APICall |-> FALSE, Capture |-> << >>,
             Conditions |-> << [Field |-> "clusterId", Operator |-> "exists",
                                Value |-> ""] >>,
             Expression |-> "clusterPhase == Ready"]

NilPost == [isNil |-> TRUE, Payloads |-> << >>, PostActions |-> << >>]

PostConfigs ==
    { NilPost,
      [isNil |-> FALSE,
       Payloads |-> << [Name |-> "statusPayload", HasBuild |-> TRUE,
                        HasBuildRefContent |-> FALSE,
                        Build |-> Map([phase |-> Str("Provisioned")])],
                       [Name |-> "auditPayload", HasBuild |-> TRUE,
                        HasBuildRefContent |-> FALSE,
                        Build |-> Map([source |-> Str("adapter"),
                                       phase |-> Map([expression |->
                                                        Str("clusterPhase")])])] >>,
       PostActions |-> << [Name |-> "reportStatus", APICall |-> TRUE],
                          [Name |-> "notify", APICall |-> TRUE] >>],
      [isNil |-> FALSE,
       Payloads |-> << [Name |-> "emptyPayload", HasBuild |-> FALSE,
                        HasBuildRefContent |-> FALSE, Build |-> EmptyMap] >>,
       PostActions |-> << [Name |-> "reportStatus", APICall |-> TRUE] >>],
      [isNil |-> FALSE,
       Payloads |-> << >>,
       PostActions |-> << [Name |-> "logOnly", APICall |-> FALSE] >>] }

Configs ==
    { [Preconditions |-> [k \in 1..Len(kinds) |-> Precondition(kinds[k], PreNames[k])],
       Resources |-> [k \in 1..n |-> ResNames[k]],
       Post |-> post] :
        kinds \in UNION {[1..len -> PrecondKinds] : len \in 0..MaxPre},
        n \in 0..MaxRes,
        post \in PostConfigs }

----------------------------------------------------------------------------
(* Execute *)

\* the zero ExecutionResult
NoResult ==
    [EventID |-> "", Status |-> "", Phase |-> PhaseUnset, Error |-> NilError,
     ErrorReason |-> "", Params |-> EmptyFn, PreconditionResults |-> << >>,
     ResourceResults |-> << >>, PostActionResults |-> << >>,
     ResourcesSkipped |-> FALSE, SkipReason |-> NoReason,
     HasExecutionContext |-> FALSE]

NotReturned == [returned |-> FALSE, err |-> NilError]

\* one entry of the trace: a step of a phase (step 0 of the post phase is the
\* entry of the post-action executor, where the payloads are built)
Step(phase, n) == [phase |-> phase, step |-> n]

\* the variables of a machine that does not run
ExecIdle ==
    /\ config = [Preconditions |-> << >>, Resources |-> << >>, Post |-> NilPost]
    /\ pc = "off"
    /\ evt = NilEvent
    /\ execCtx = NilContext
    /\ result = NoResult
    /\ results = << >>
    /\ precondOutcome = NoOutcome
    /\ phaseErr = NilError
    /\ handlerReturn = NotReturned
    /\ trace = << >>
HeapIdle == heap = << >>
ConcIdle == tasks = << >> /\ templates = << >>
CopyIdle == original = 0 /\ copied = 0 /\ snapshot = 0 /\ edits = 0
WorkIdle == work = 0
HealthIdle == health = 0
CaptureIdle == lookup = 0
BuildIdle == builder = 0

Init ==
    /\ config \in Configs
    /\ pc = "idle"
    /\ evt = NilEvent
    /\ execCtx = NilContext
    /\ result = NoResult
    /\ results = << >>
    /\ precondOutcome = NoOutcome
    /\ phaseErr = NilError
    /\ handlerReturn = NotReturned
    /\ trace = << >>
    /\ HeapIdle /\ ConcIdle /\ CopyIdle /\ WorkIdle /\ HealthIdle /\ CaptureIdle /\ BuildIdle

\* mutant: the result of a nil event carries the phase of its error
NilEventResult_WithPhase ==
    [NoResult EXCEPT !.Status = StatusFailed,
                     !.Phase = PhaseParamExtraction,
                     !.Error = NewExecutorError(PhaseParamExtraction, "init",
                                                "event is required"),
                     !.ErrorReason = "nil event received"]

\* the result Execute returns for a nil event: Phase is left at its zero
\* value, the phase is named only inside the error
NilEventResult ==
    [NoResult EXCEPT !.Status = StatusFailed,
                     !.Error = NewExecutorError(PhaseParamExtraction, "init",
                                                "event is required"),
                     !.ErrorReason = "nil event received"]

\* Execute, setup: nil check, parseEventData, NewExecutionContext, new result
Receive(e) ==
    /\ pc = "idle"
    /\ evt' = e
    /\ IF e.isNil
       THEN /\ result' = NilEventResult
            /\ pc' = "return"
            /\ UNCHANGED execCtx
       ELSE IF parseEventData(e).err
       THEN /\ result' = [NoResult EXCEPT
                            !.EventID = e.id,
                            !.Status = StatusFailed,
                            !.Phase = PhaseParamExtraction,
                            !.Error = NewExecutorError(PhaseParamExtraction, "parse_event",
                                                       "failed to parse event data"),
                            !.ErrorReason = "event data parsing failed"]
            /\ pc' = "return"
            /\ UNCHANGED execCtx
       ELSE /\ execCtx' = NewExecutionContext(parseEventData(e).value)
            /\ result' = [NoResult EXCEPT !.EventID = e.id, !.Status = StatusSuccess,
                                          !.Phase = PhaseParamExtraction]
            /\ pc' = "paramExtraction"
    /\ UNCHANGED <<config, results, precondOutcome, phaseErr, handlerReturn, trace>>
    /\ UNCHANGED notExecVars

\* mutant: the failed result carries neither the context nor its params
finishWithError_NoContext(res, ctx, err, reason) ==
    [res EXCEPT !.Status = StatusFailed, !.Error = err, !.ErrorReason = reason]

\* finishWithError
finishWithError(res, ctx, err, reason) ==
    [res EXCEPT !.Status = StatusFailed, !.Error = err, !.ErrorReason = reason,
                !.HasExecutionContext = TRUE, !.Params = ctx.Params]

\* mutant: a failed extraction does not end the execution
AfterParamExtraction_Continue(err) == "preconditions"

\* Execute, after phase 1: a failed extraction ends the execution
AfterParamExtraction(err) ==
    IF err # NilError THEN "return" ELSE "preconditions"

\* mutant: a precondition that is not met is recorded as a failure
RecordPreconditions_SkipIsFailure(res, outcome) ==
    LET r1 == [res EXCEPT !.PreconditionResults = outcome.Results]
    IN IF outcome.Error # NilError \/ ~outcome.AllMatched
       THEN [r1 EXCEPT !.Status = StatusFailed,
                       !.Error = NewExecutorError(PhasePreconditions, "", "not met"),
                       !.ErrorReason = "precondition evaluation failed"]
       ELSE r1

\* Execute, how the outcome of the precondition phase is recorded
RecordPreconditions(res, outcome) ==
    LET r1 == [res EXCEPT !.PreconditionResults = outcome.Results]
    IN IF outcome.Error # NilError
       THEN [r1 EXCEPT !.Status = StatusFailed, !.Error = outcome.Error,
                       !.ErrorReason = "precondition evaluation failed"]
       ELSE IF ~outcome.AllMatched
       THEN [r1 EXCEPT !.ResourcesSkipped = TRUE,
                       !.SkipReason = outcome.NotMetReason]
       ELSE r1

\* mutant: the resources run although the preconditions were not met
RunResources_IgnoreSkip(res) == res.Status = StatusSuccess

\* Execute, phase 3: the resources run unless a phase failed or they are skipped
RunResources(res) == res.Status = StatusSuccess /\ ~res.ResourcesSkipped

\* mutant: a failed precondition phase ends the execution without post actions
AfterPreconditions_SkipPostOnFailure(res) ==
    IF res.Status = StatusSuccess /\ ~res.ResourcesSkipped THEN "resources"
    ELSE IF res.Status = StatusFailed THEN "postReturn"
    ELSE "postActions"

\* Execute, where it goes after the precondition phase: the post actions
\* always follow, with or without the resources
AfterPreconditions(res) ==
    IF RunResources(res) THEN "resources" ELSE "postActions"

\* Execute, phase 1
ParamExtraction ==
    /\ pc = "paramExtraction"
    /\ LET r == executeParamExtraction(execCtx)
       IN /\ execCtx' = r.ctx
          /\ IF r.err # NilError
             THEN result' = finishWithError(result, r.ctx, r.err,
                                            "parameter extraction failed")
             ELSE result' = [result EXCEPT !.Params = r.ctx.Params,
                                           !.Phase = PhasePreconditions]
          /\ pc' = AfterParamExtraction(r.err)
    /\ trace' = Append(trace, Step(PhaseParamExtraction, 1))
    /\ UNCHANGED <<config, evt, results, precondOutcome, phaseErr, handlerReturn>>
    /\ UNCHANGED notExecVars

\* PreconditionExecutor.ExecuteAll, one iteration of the loop
PreconditionStep(resp) ==
    /\ pc = "preconditions"
    /\ ~precondOutcome.set
    /\ Len(results) < Len(config.Preconditions)
    /\ LET precond == config.Preconditions[NextIndex(config.Preconditions, results)]
           x == executePrecondition(precond, execCtx, resp)
           rs == Append(results, x.result)
       IN /\ resp \in AnswersTo(precond.APICall)
          /\ results' = rs
          /\ execCtx' = x.ctx
          /\ result' = [result EXCEPT !.Params = x.ctx.Params]
          /\ precondOutcome' = LoopOutcome(precond, x, rs)
    /\ trace' = Append(trace, Step(PhasePreconditions,
                                   NextIndex(config.Preconditions, results)))
    /\ UNCHANGED <<config, pc, evt, phaseErr, handlerReturn>>
    /\ UNCHANGED notExecVars

\* PreconditionExecutor.ExecuteAll returns; Execute records the outcome and
\* decides whether the resource phase runs
PreconditionsFinish ==
    /\ pc = "preconditions"
    /\ precondOutcome.set \/ Len(results) = Len(config.Preconditions)
    /\ LET outcome == IF precondOutcome.set THEN precondOutcome
                      ELSE AllMatchedOutcome(results)
           r2 == RecordPreconditions(result, outcome)
           runResources == AfterPreconditions(r2) = "resources"
       IN /\ precondOutcome' = outcome
          /\ execCtx' = IF outcome.Error # NilError
                        THEN SetError(execCtx, "PreconditionFailed", outcome.Error.Message)
                        ELSE IF ~outcome.AllMatched
                        THEN SetSkipped(execCtx, "PreconditionNotMet", outcome.NotMetReason)
                        ELSE execCtx
          /\ result' = [r2 EXCEPT !.Phase = IF runResources THEN PhaseResources
                                            ELSE PhasePostActions]
          /\ pc' = AfterPreconditions(r2)
    /\ results' = << >>
    /\ UNCHANGED <<config, evt, phaseErr, handlerReturn, trace>>
    /\ UNCHANGED notExecVars

\* ResourceExecutor.ExecuteAll, one iteration: apply the next resource
ResourceStep(applied) ==
    /\ pc = "resources"
    /\ phaseErr = NilError
    /\ Len(results) < Len(config.Resources)
    /\ LET name == config.Resources[NextIndex(config.Resources, results)]
       IN IF applied
          THEN /\ results' = Append(results, [Name |-> name, Status |-> StatusSuccess,
                                              Error |-> NilError])
               /\ UNCHANGED <<phaseErr, execCtx>>
          ELSE /\ results' = Append(results, [Name |-> name, Status |-> StatusFailed,
                                              Error |-> NewExecutorError("", "", "apply failed")])
               /\ phaseErr' = NewExecutorError(PhaseResources, name,
                                               "failed to apply resource")
               /\ execCtx' = SetExecutionError(execCtx, PhaseResources, name, "apply failed")
    /\ trace' = Append(trace, Step(PhaseResources, NextIndex(config.Resources, results)))
    /\ UNCHANGED <<config, pc, evt, result, precondOutcome, handlerReturn>>
    /\ UNCHANGED notExecVars

\* mutant: an apply error is logged and the event goes on as a success
ResourceFailure_Ignored(res, err) == res

\* Execute, phase 3, on an error of the resource executor
ResourceFailure(res, err) ==
    [res EXCEPT !.Status = StatusFailed, !.Error = err,
                !.ErrorReason = "resource execution failed"]

\* mutant: a failed resource phase is run again
AfterResources_Retry(err) ==
    IF err # NilError THEN "resources" ELSE "postActions"

\* Execute, where it goes after the resource phase: on to the post actions,
\* whether the resources were applied or not
AfterResources(err) == "postActions"

\* ResourceExecutor.ExecuteAll returns; Execute records the results
ResourcesFinish ==
    /\ pc = "resources"
    /\ phaseErr # NilError \/ Len(results) = Len(config.Resources)
    /\ LET r1 == [result EXCEPT !.ResourceResults = results]
       IN IF phaseErr # NilError
          THEN /\ result' = [ResourceFailure(r1, phaseErr) EXCEPT
                                  !.Phase = PhasePostActions]
               /\ execCtx' = SetError(execCtx, "ResourceFailed", phaseErr.Message)
          ELSE /\ result' = [r1 EXCEPT !.Phase = PhasePostActions]
               /\ UNCHANGED execCtx
    /\ pc' = AfterResources(phaseErr)
    /\ results' = << >>
    /\ phaseErr' = NilError
    /\ UNCHANGED <<config, evt, precondOutcome, handlerReturn, trace>>
    /\ UNCHANGED notExecVars

\* mutant: a payload build failure does not end the post phase
AfterPayloads_Continue(failed) == "postLoop"

\* PostActionExecutor.ExecuteAll, after step 1: a payload build failure
\* returns at once, else the loop over the post actions starts
AfterPayloads(failed) == IF failed THEN "postReturn" ELSE "postLoop"

\* mutant: the loop goes on after a failed post action
AfterPostAction_Continue(err) == "postLoop"

\* PostActionExecutor.ExecuteAll, after one post action: the first failure
\* returns, the remaining post actions are not run
AfterPostAction(err) == IF err # NilError THEN "postReturn" ELSE "postLoop"

\* PostActionExecutor.ExecuteAll, entry: nil configuration, then the payloads
BuildPayloads ==
    /\ pc = "postActions"
    /\ IF config.Post.isNil
       THEN /\ pc' = "postReturn"
            /\ UNCHANGED <<execCtx, result, phaseErr>>
       ELSE LET b == buildPostPayloads(config.Post.Payloads, 1, execCtx)
            IN IF b.err
               THEN /\ execCtx' = SetExecutionError(b.ctx, PhasePostActions,
                                                    "build_payloads", "payload build failed")
                    /\ result' = [result EXCEPT !.Params = b.ctx.Params]
                    /\ phaseErr' = NewExecutorError(PhasePostActions, "build_payloads",
                                                    "failed to build post payloads")
                    /\ pc' = AfterPayloads(TRUE)
               ELSE /\ execCtx' = b.ctx
                    /\ result' = [result EXCEPT !.Params = b.ctx.Params]
                    /\ pc' = AfterPayloads(FALSE)
                    /\ UNCHANGED phaseErr
    /\ results' = << >>
    /\ trace' = Append(trace, Step(PhasePostActions, 0))
    /\ UNCHANGED <<config, evt, precondOutcome, handlerReturn>>
    /\ UNCHANGED notExecVars

\* PostActionExecutor.ExecuteAll, one iteration of the loop
PostActionStep(resp) ==
    /\ pc = "postLoop"
    /\ Len(results) < Len(config.Post.PostActions)
    /\ LET action == config.Post.PostActions[NextIndex(config.Post.PostActions, results)]
           x == executePostAction(action, resp)
       IN /\ resp \in PostAnswersTo(action.APICall)
          /\ results' = Append(results, x.result)
          /\ IF x.err # NilError
             THEN /\ execCtx' = SetExecutionError(execCtx, PhasePostActions, action.Name,
                                                  x.err.Message)
                  /\ phaseErr' = x.err
             ELSE UNCHANGED <<execCtx, phaseErr>>
          /\ pc' = AfterPostAction(x.err)
    /\ trace' = Append(trace, Step(PhasePostActions,
                                   NextIndex(config.Post.PostActions, results)))
    /\ UNCHANGED <<config, evt, result, precondOutcome, handlerReturn>>
    /\ UNCHANGED notExecVars

\* mutant: the records of the earlier phases are dropped with the post phase
RecordPostActions_Fresh(res, rs) ==
    [res EXCEPT !.PostActionResults = rs, !.PreconditionResults = << >>,
                !.ResourceResults = << >>]

\* Execute, phase 4: result.PostActionResults = postResults
RecordPostActions(res, rs) == [res EXCEPT !.PostActionResults = rs]

\* mutant: the error of an earlier phase is kept, the first failure wins
PostFailure_KeepFirst(res, err) ==
    IF res.Status = StatusFailed THEN res
    ELSE [res EXCEPT !.Status = StatusFailed, !.Error = err,
                     !.ErrorReason = "post action execution failed"]

\* Execute, phase 4, on an error of the post-action executor
PostFailure(res, err) ==
    [res EXCEPT !.Status = StatusFailed, !.Error = err,
                !.ErrorReason = "post action execution failed"]

\* PostActionExecutor.ExecuteAll returns; Execute records the results and
\* finalizes the ExecutionResult
PostActionsFinish ==
    /\ \/ pc = "postReturn"
       \/ pc = "postLoop" /\ Len(results) = Len(config.Post.PostActions)
    /\ LET r1 == [RecordPostActions(result, results) EXCEPT
                     !.HasExecutionContext = TRUE]
       IN result' = IF phaseErr # NilError
                    THEN PostFailure(r1, phaseErr)
                    ELSE r1
    /\ pc' = "return"
    /\ results' = << >>
    /\ UNCHANGED <<config, evt, execCtx, precondOutcome, phaseErr, handlerReturn, trace>>
    /\ UNCHANGED notExecVars

\* mutant: every failed result is NACKed, invalid events included
CreateHandler_NackAll(res) ==
    IF res.Status = StatusFailed THEN res.Error ELSE NilError

\* the handler of CreateHandler, after Execute returned: ACK (nil) or NACK
CreateHandler(res) ==
    IF res.Status = StatusFailed
    THEN IF res.Phase = PhaseParamExtraction THEN NilError ELSE res.Error
    ELSE NilError

HandlerReturn ==
    /\ pc = "return"
    /\ handlerReturn' = [returned |-> TRUE, err |-> CreateHandler(result)]
    /\ pc' = "done"
    /\ UNCHANGED <<config, evt, execCtx, result, results, precondOutcome, phaseErr, trace>>
    /\ UNCHANGED notExecVars

\* the broker delivers the next event to the handler: a new Execute call
NextEvent ==
    /\ pc = "done"
    /\ pc' = "idle"
    /\ evt' = NilEvent
    /\ execCtx' = NilContext
    /\ result' = NoResult
    /\ results' = << >>
    /\ precondOutcome' = NoOutcome
    /\ phaseErr' = NilError
    /\ handlerReturn' = NotReturned
    /\ trace' = << >>
    /\ UNCHANGED config
    /\ UNCHANGED notExecVars

Next ==
    \/ \E e \in Events : Receive(e)
    \/ ParamExtraction
    \/ \E resp \in APIResponses \cup {NoResponse} : PreconditionStep(resp)
    \/ PreconditionsFinish
    \/ \E applied \in BOOLEAN : ResourceStep(applied)
    \/ ResourcesFinish
    \/ BuildPayloads
    \/ \E resp \in PostResponses \cup {NoResponse} : PostActionStep(resp)
    \/ PostActionsFinish
    \/ HandlerReturn
    \/ NextEvent

Spec == Init /\ [][Next]_vars

\* the steps of one Execute call and of the handler around it.  Execute is
\* straight-line code on the caller's goroutine: once it is called, its next
\* statement runs as soon as the collaborator call before it has returned
ExecuteStep ==
    \/ ParamExtraction
    \/ \E resp \in APIResponses \cup {NoResponse} : PreconditionStep(resp)
    \/ PreconditionsFinish
    \/ \E applied \in BOOLEAN : ResourceStep(applied)
    \/ ResourcesFinish
    \/ BuildPayloads
    \/ \E resp \in PostResponses \cup {NoResponse} : PostActionStep(resp)
    \/ PostActionsFinish
    \/ HandlerReturn

\* the engine under the assumption that every collaborator call returns
SpecLive == Spec /\ WF_vars(ExecuteStep)

----------------------------------------------------------------------------
(* Vocabulary of the properties *)

\* Execute has returned for the current event
Returned == pc \in {"return", "done"}

\* the event is non-nil and its data parses
Parses(e) == ~e.isNil /\ ~parseEventData(e).err

\* the event is non-nil, its data parses and its parameters extract
ExtractionSucceeds(e) ==
    /\ Parses(e)
    /\ executeParamExtraction(NewExecutionContext(parseEventData(e).value)).err = NilError

\* positions of the trace where the post-action executor was entered
PostPhaseEntries == {k \in 1..Len(trace) : trace[k] = Step(PhasePostActions, 0)}

\* positions of the trace that are steps of the given phase
StepsOf(phase) == {k \in 1..Len(trace) : trace[k].phase = phase}

\* the precondition phase ended on a hard failure / on a mismatch
PreconditionsFailed == precondOutcome.set /\ precondOutcome.Error # NilError
PreconditionsNotMet ==
    precondOutcome.set /\ precondOutcome.Error = NilError /\ ~precondOutcome.AllMatched

----------------------------------------------------------------------------
(* Properties *)

\* C1: the handler returns nil (ACK) when the result has status=success or has
\* status=failed with phase=paramExtraction, and returns the result's non-nil
\* error (NACK) for every other failed result.
C1_AckPolicy ==
    handlerReturn.returned =>
        IF \/ result.Status = StatusSuccess
           \/ result.Status = StatusFailed /\ result.Phase = PhaseParamExtraction
        THEN handlerReturn.err = NilError
        ELSE /\ result.Status = StatusFailed
             /\ handlerReturn.err = result.Error
             /\ handlerReturn.err # NilError

C1_Witness ==
    /\ handlerReturn.returned
    /\ result.Status = StatusFailed
    /\ result.Phase = PhaseParamExtraction
    /\ result.Error # NilError
    /\ handlerReturn.err = NilError

\* C2: whenever parameter extraction succeeds, the post-action phase is
\* executed exactly once per event, after the precondition and resource
\* phases, whether those phases succeeded, were skipped or failed.
C2_PostPhaseOnce ==
    /\ Cardinality(PostPhaseEntries) <= 1
    /\ (Returned /\ ExtractionSucceeds(evt)) =>
          /\ Cardinality(PostPhaseEntries) = 1
          /\ \A k \in StepsOf(PhasePreconditions) \cup StepsOf(PhaseResources) :
                \A p \in PostPhaseEntries : k < p

C2_Witness ==
    /\ pc = "done"
    /\ ExtractionSucceeds(evt)
    /\ PreconditionsFailed
    /\ result.Status = StatusFailed
    /\ Cardinality(PostPhaseEntries) = 1

\* C3 as stated: for every non-nil event whose data parses successfully as
\* JSON, Execute runs the post-action phase.
C3_Original ==
    (Returned /\ Parses(evt)) => PostPhaseEntries # {}

\* C3 as amended: for every non-nil event whose data parses successfully as
\* JSON and whose parameter extraction succeeds, Execute runs the post-action
\* phase; when parameter extraction fails Execute returns without running it.
C3_PostPhaseAfterExtraction ==
    (Returned /\ Parses(evt)) =>
        (PostPhaseEntries # {} <=> ExtractionSucceeds(evt))

C3_Witness ==
    /\ pc = "done"
    /\ Parses(evt)
    /\ ~ExtractionSucceeds(evt)
    /\ result.Status = StatusFailed
    /\ PostPhaseEntries = {}

\* C4: the resource phase runs (any resource is applied) only if every
\* precondition matched and no earlier phase hard-failed; otherwise no resource
\* is applied, resourceResults is empty, and post-actions still run.
C4_ResourcesGuard ==
    /\ (pc = "resources" \/ StepsOf(PhaseResources) # {}) =>
          /\ precondOutcome.set
          /\ precondOutcome.AllMatched
          /\ precondOutcome.Error = NilError
          /\ Len(precondOutcome.Results) = Len(config.Preconditions)
          /\ \A k \in 1..Len(precondOutcome.Results) :
                /\ precondOutcome.Results[k].Matched
                /\ precondOutcome.Results[k].Status = StatusSuccess
    /\ (Returned /\ (PreconditionsFailed \/ PreconditionsNotMet)) =>
          /\ StepsOf(PhaseResources) = {}
          /\ result.ResourceResults = << >>
          /\ PostPhaseEntries # {}

C4_Witness ==
    /\ pc = "done"
    /\ PreconditionsNotMet
    /\ Len(config.Resources) > 0
    /\ result.ResourceResults = << >>
    /\ PostPhaseEntries # {}

\* C5: when a precondition evaluates without error but does not match, the
\* event is a business skip and not a failure: provided the post-actions
\* succeed, the result has status=success, resourcesSkipped=true, skipReason
\* equal to the outcome's notMetReason, and the handler returns nil.
C5_BusinessSkip ==
    (PreconditionsNotMet /\ phaseErr = NilError /\ pc = "done") =>
        /\ result.Status = StatusSuccess
        /\ result.ResourcesSkipped
        /\ result.SkipReason = precondOutcome.NotMetReason
        /\ precondOutcome.NotMetReason # NoReason
        /\ handlerReturn.returned
        /\ handlerReturn.err = NilError

C5_Witness ==
    /\ pc = "done"
    /\ PreconditionsNotMet
    /\ phaseErr = NilError
    /\ Len(result.PostActionResults) > 0
    /\ result.ResourcesSkipped
    /\ handlerReturn.err = NilError

\* C6: when a hard failure occurs in phase P (preconditions or resources), the
\* ExecutionResult returned by Execute has status=failed and its phase field
\* equals P, with post-actions still attempted afterwards.
C6_FailedPhaseReported ==
    /\ (Returned /\ PreconditionsFailed) =>
          /\ result.Status = StatusFailed
          /\ result.Phase = PhasePreconditions
          /\ PostPhaseEntries # {}
    /\ (Returned /\ \E k \in 1..Len(result.ResourceResults) :
                        result.ResourceResults[k].Status = StatusFailed) =>
          /\ result.Status = StatusFailed
          /\ result.Phase = PhaseResources
          /\ PostPhaseEntries # {}

\* the record of a precondition whose API call failed
APICallFailed(r) ==
    /\ r.Status = StatusFailed
    /\ ~r.APICallMade
    /\ r.Error.Message \in {"transport", "status"}

\* C7: preconditions are evaluated in declared order and stop at the first one
\* that does not match: the outcome has allMatched=false, one record per
\* precondition up to and including the unmatched one (2 records for [A,B,C]
\* with A matched and B unmatched), and no later precondition is executed.
C7_ShortCircuit ==
    PreconditionsNotMet =>
        LET n == Len(precondOutcome.Results)
        IN /\ n >= 1
           /\ n <= Len(config.Preconditions)
           /\ ~precondOutcome.Results[n].Matched
           /\ \A k \in 1..n :
                 /\ precondOutcome.Results[k].Name = config.Preconditions[k].Name
                 /\ k < n => precondOutcome.Results[k].Matched
           /\ \A k \in StepsOf(PhasePreconditions) : trace[k].step <= n
           /\ Cardinality(StepsOf(PhasePreconditions)) = n
           /\ \A k \in 1..Len(execCtx.Evaluations) :
                 \E j \in 1..n : execCtx.Evaluations[k].Name = config.Preconditions[j].Name
           /\ Returned => result.PreconditionResults = precondOutcome.Results

C7_Witness ==
    /\ pc = "done"
    /\ Len(config.Preconditions) = 3
    /\ ~precondOutcome.AllMatched
    /\ precondOutcome.Error = NilError
    /\ Len(result.PreconditionResults) = 2
    /\ result.PreconditionResults[1].Matched
    /\ ~result.PreconditionResults[2].Matched

\* C8: if a precondition's API call fails, that precondition's record has
\* status=failed with the error, the outcome carries a non-nil error with
\* allMatched=false, no later precondition is executed, and when the
\* precondition phase returns adapter.executionError records
\* phase=preconditions with that precondition's name as step.
C8_APICallFailure ==
    \A k \in 1..Len(precondOutcome.Results) :
        (precondOutcome.set /\ APICallFailed(precondOutcome.Results[k])) =>
            /\ k = Len(precondOutcome.Results)
            /\ precondOutcome.Results[k].Error # NilError
            /\ precondOutcome.Error # NilError
            /\ ~precondOutcome.AllMatched
            /\ \A j \in StepsOf(PhasePreconditions) : trace[j].step <= k
            /\ pc \in {"preconditions", "postActions"} =>
                  /\ execCtx.Adapter.ExecutionError.Phase = PhasePreconditions
                  /\ execCtx.Adapter.ExecutionError.Step = config.Preconditions[k].Name
                  /\ execCtx.Adapter.ExecutionError.Message # ""

C8_Witness ==
    /\ pc = "postActions"
    /\ precondOutcome.set
    /\ Len(precondOutcome.Results) = 2
    /\ Len(config.Preconditions) = 3
    /\ APICallFailed(precondOutcome.Results[2])
    /\ execCtx.Adapter.ExecutionError.Step = "B"

\* C9: within one event adapter.executionError is set exactly once: the first
\* failure wins, so a later failure in the same event does not change its
\* phase, step or message.
C9_FirstFailureWins ==
    [][(execCtx.Adapter.ExecutionError # NoExecutionError /\ pc # "done")
        => execCtx'.Adapter.ExecutionError = execCtx.Adapter.ExecutionError]_vars

\* the fixed order of the phases
Rank(phase) ==
    CASE phase = PhaseParamExtraction -> 1
      [] phase = PhasePreconditions -> 2
      [] phase = PhaseResources -> 3
      [] phase = PhasePostActions -> 4

\* C10: within one Execute call, steps happen in the fixed phase order and in
\* declared order inside a phase: every precondition step precedes every
\* resource apply, every resource apply precedes every payload build and
\* post-action call, and the steps of a phase run one after the other from the
\* first declared one.
C10_StepOrder ==
    /\ \A j, k \in 1..Len(trace) :
          j < k => /\ Rank(trace[j].phase) <= Rank(trace[k].phase)
                   /\ trace[j].phase = trace[k].phase =>
                         trace[k].step = trace[j].step + (k - j)
    /\ \A k \in 1..Len(trace) :
          (k = 1 \/ trace[k - 1].phase # trace[k].phase) =>
              trace[k].step = IF trace[k].phase = PhasePostActions THEN 0 ELSE 1

C10_Witness ==
    /\ pc = "done"
    /\ Cardinality(StepsOf(PhasePreconditions)) >= 2
    /\ Cardinality(StepsOf(PhaseResources)) >= 2
    /\ Cardinality(StepsOf(PhasePostActions)) >= 3

\* positions of the trace where a post action was executed
PostActionSteps == {k \in StepsOf(PhasePostActions) : trace[k].step >= 1}

\* the post-action executor was entered and building its payloads failed
PayloadBuildFailed ==
    /\ PostPhaseEntries # {}
    /\ ~config.Post.isNil
    /\ buildPostPayloads(config.Post.Payloads, 1, execCtx).err

\* C11: in the post phase all payloads are built before any post action
\* executes, and a payload build failure is fatal to the phase: no post action
\* is executed, the list of post-action results is empty and the phase returns
\* an error.
C11_PayloadsFirst ==
    /\ \A k \in PostActionSteps :
          /\ \E j \in PostPhaseEntries : j < k
          /\ \A p \in 1..Len(config.Post.Payloads) :
                config.Post.Payloads[p].Name \in DOMAIN execCtx.Params
    /\ PayloadBuildFailed =>
          /\ PostActionSteps = {}
          /\ pc \in {"postReturn", "return", "done"}
          /\ results = << >>
          /\ result.PostActionResults = << >>
          /\ phaseErr = NewExecutorError(PhasePostActions, "build_payloads",
                                         "failed to build post payloads")
          /\ Returned => /\ result.Status = StatusFailed
                         /\ result.Error = phaseErr

C11_Witness ==
    /\ pc = "done"
    /\ PayloadBuildFailed
    /\ Len(config.Post.PostActions) >= 1
    /\ result.PostActionResults = << >>
    /\ result.Error.Step = "build_payloads"

\* the list of post-action records: the executor's local while the post phase
\* runs, the result's field once Execute has returned
PostRecords ==
    IF pc \in {"postLoop", "postReturn"} THEN results
    ELSE IF Returned THEN result.PostActionResults
    ELSE << >>

\* C12: post actions execute sequentially in declared order and stop at the
\* first failure: the results hold exactly one record per executed action, in
\* declared order, up to and including the failing one (whose status is
\* failed), and no later post action is run.
C12_StopAtFirstFailure ==
    LET rs == PostRecords
        declared == config.Post.PostActions
    IN /\ Cardinality(PostActionSteps) = Len(rs)
       /\ Len(rs) <= Len(declared)
       /\ \A k \in 1..Len(rs) :
             /\ rs[k].Name = declared[k].Name
             /\ rs[k].Status = StatusFailed => k = Len(rs)
             /\ rs[k].APICallMade = declared[k].APICall
       /\ (Returned /\ PostPhaseEntries # {} /\ ~PayloadBuildFailed) =>
             \/ Len(rs) = Len(declared)
             \/ Len(rs) >= 1 /\ rs[Len(rs)].Status = StatusFailed

C12_Witness ==
    /\ pc = "done"
    /\ Len(config.Post.PostActions) = 2
    /\ Len(result.PostActionResults) = 1
    /\ result.PostActionResults[1].Status = StatusFailed
    /\ result.PostActionResults[1].APICallMade
    /\ Cardinality(PostActionSteps) = 1

\* the precondition records of the current event: the executor's local while
\* the precondition phase runs, the outcome's list afterwards
PrecondRecords == IF pc = "preconditions" THEN results ELSE precondOutcome.Results

\* the names that parameter extraction can bind
ExtractedNames == {ConfigParams[k].Name : k \in 1..Len(ConfigParams)} \cup {"metadata"}

\* capture c of the k-th precondition found no source field in the response
\* that the k-th record holds
CaptureMissed(rs, k, c) ==
    /\ rs[k].APICallMade
    /\ ~JSONUnmarshalMap(rs[k].APIResponse).err
    /\ captureFieldFromData(JSONUnmarshalMap(rs[k].APIResponse).value, c.Field).err

\* the captures of the k-th precondition that bind the name of capture c and
\* found their source field in the response
Found(rs, k, c) ==
    {i \in 1..Len(config.Preconditions[k].Capture) :
        /\ config.Preconditions[k].Capture[i].Name = c.Name
        /\ ~CaptureMissed(rs, k, config.Preconditions[k].Capture[i])}

\* C13: a capture whose source field is missing from the API response does not
\* fail the precondition: the capture is skipped, its name is bound neither in
\* capturedFields nor in params (by this capture: another capture of the
\* same name that finds its field still binds it), the remaining captures and
\* the evaluation of the conditions still run.
C13_MissingCaptureSkipped ==
    LET rs == PrecondRecords
    IN \A k \in 1..Len(rs) :
          LET precond == config.Preconditions[k]
              caps == {precond.Capture[i] : i \in 1..Len(precond.Capture)}
          IN (\E c \in caps : CaptureMissed(rs, k, c)) =>
                /\ rs[k].Status = StatusSuccess
                /\ rs[k].Error = NilError
                /\ Len(rs[k].ConditionResults) = Len(precond.Conditions)
                /\ \A c \in caps :
                      IF Found(rs, k, c) = {}
                      THEN /\ c.Name \notin DOMAIN rs[k].CapturedFields
                           /\ (pc \in {"preconditions", "resources", "postActions"}
                               /\ c.Name \in DOMAIN execCtx.Params) =>
                                 \/ c.Name \in ExtractedNames
                                 \/ \E j \in 1..Len(rs) :
                                       /\ c.Name \in DOMAIN rs[j].CapturedFields
                                       /\ rs[j].CapturedFields[c.Name]
                                             = execCtx.Params[c.Name]
                      ELSE /\ c.Name \in DOMAIN rs[k].CapturedFields
                           /\ rs[k].CapturedFields[c.Name] \in
                                 {captureFieldFromData(
                                      JSONUnmarshalMap(rs[k].APIResponse).value,
                                      precond.Capture[i].Field).value :
                                  i \in Found(rs, k, c)}

C13_Witness ==
    /\ pc = "preconditions"
    /\ Len(results) = 1
    /\ \E c \in {config.Preconditions[1].Capture[i] :
                    i \in 1..Len(config.Preconditions[1].Capture)} :
          /\ CaptureMissed(results, 1, c)
          /\ c.Name \notin DOMAIN execCtx.Params
    /\ "clusterPhase" \in DOMAIN results[1].CapturedFields
    /\ results[1].Matched

\* the k-th precondition record holds a CEL result with a runtime error
CELRuntimeError(rs, k) == rs[k].CELResult.set /\ HasError(rs[k].CELResult)

\* C14: a precondition whose CEL expression hits a runtime evaluation error is
\* reported as not matched with a non-empty error reason: the outcome is a
\* business skip whose notMetReason mentions the CEL error, never a hard
\* failure of the phase.
C14_CELRuntimeErrorIsSkip ==
    LET rs == PrecondRecords
    IN \A k \in 1..Len(rs) :
          CELRuntimeError(rs, k) =>
             /\ ~rs[k].Matched
             /\ rs[k].CELResult.ErrorReason # ""
             /\ rs[k].Status = StatusSuccess
             /\ rs[k].Error = NilError
             /\ k = Len(rs)
             /\ precondOutcome.set
             /\ precondOutcome.Error = NilError
             /\ ~precondOutcome.AllMatched
             /\ precondOutcome.NotMetReason.Precondition = rs[k].Name
             /\ \E d \in 1..Len(precondOutcome.NotMetReason.Details) :
                   precondOutcome.NotMetReason.Details[d] =
                       [kind |-> "CEL error", text |-> rs[k].CELResult.ErrorReason]
             /\ pc # "preconditions" =>
                   /\ result.ResourcesSkipped
                   /\ result.SkipReason = precondOutcome.NotMetReason
                   /\ result.ResourceResults = << >>
                   /\ result.Error.Phase # PhasePreconditions
                   /\ execCtx.Adapter.ExecutionStatus = StatusSuccess

C14_Witness ==
    /\ pc = "done"
    /\ Len(precondOutcome.Results) = 2
    /\ CELRuntimeError(precondOutcome.Results, 2)
    /\ result.Status = StatusSuccess
    /\ result.ResourcesSkipped
    /\ result.SkipReason.Details[1].kind = "CEL error"

\* a precondition with neither structured conditions nor an expression
Trivial(precond) == Len(precond.Conditions) = 0 /\ precond.Expression = ""

\* C15 as stated: a trivial precondition whose optional API call succeeded has
\* a record with matched=true and status=success.  Violated when the call
\* succeeds with a body that does not decode to a JSON object.
C15_Original ==
    LET rs == PrecondRecords
    IN \A k \in 1..Len(rs) :
          (/\ Trivial(config.Preconditions[k])
           /\ config.Preconditions[k].APICall => rs[k].APICallMade) =>
             /\ rs[k].Matched
             /\ rs[k].Status = StatusSuccess

\* C15, amended: a precondition that has neither structured conditions nor an
\* expression is trivially matched, provided its optional API call succeeded
\* and the response body decoded to a JSON object: its record has matched=true
\* and status=success, and evaluation continues with the next precondition.
C15_TriviallyMatched ==
    LET rs == PrecondRecords
        declared == config.Preconditions
    IN \A k \in 1..Len(rs) :
          (/\ Trivial(declared[k])
           /\ declared[k].APICall =>
                 /\ rs[k].APICallMade
                 /\ ~JSONUnmarshalMap(rs[k].APIResponse).err) =>
             /\ rs[k].Matched
             /\ rs[k].Status = StatusSuccess
             /\ rs[k].Error = NilError
             /\ k < Len(declared) =>
                   IF pc = "preconditions" /\ k = Len(rs)
                   THEN ~precondOutcome.set
                   ELSE Len(rs) > k
             /\ (k = Len(declared) /\ pc # "preconditions") =>
                   /\ precondOutcome.AllMatched
                   /\ precondOutcome.Error = NilError

C15_Witness ==
    /\ pc = "preconditions"
    /\ Len(results) = 2
    /\ Trivial(config.Preconditions[1])
    /\ results[1].APICallMade
    /\ results[1].Matched
    /\ results[1].Status = StatusSuccess

\* the event carries data that is not the JSON text of a map
UndecodableData(e) == ~e.isNil /\ e.data # "" /\ JSONUnmarshalMap(e.data).err

\* C16: if the event's data is non-empty and is not valid JSON for a map,
\* Execute returns status=failed with phase=paramExtraction without executing
\* any phase (no parameter extraction, precondition, resource or post action),
\* and the handler returns nil, so the event is acknowledged and not retried.
C16_UndecodableEventAcked ==
    (pc # "idle" /\ UndecodableData(evt)) =>
        /\ Returned
        /\ result.Status = StatusFailed
        /\ result.Phase = PhaseParamExtraction
        /\ result.Error # NilError
        /\ trace = << >>
        /\ ~execCtx.exists
        /\ ~result.HasExecutionContext
        /\ result.Params = EmptyFn
        /\ result.PreconditionResults = << >>
        /\ result.ResourceResults = << >>
        /\ result.PostActionResults = << >>
        /\ handlerReturn.returned => handlerReturn.err = NilError

C16_Witness ==
    /\ pc = "done"
    /\ UndecodableData(evt)
    /\ evt.data = "[1]"
    /\ handlerReturn.returned
    /\ handlerReturn.err = NilError
    /\ result.Status = StatusFailed

----------------------------------------------------------------------------
(* Heap: Go maps and slices are references; the objects they point to live  *)
(* in the heap, by address.  An object is a map of entries, Map(f), or a    *)
(* slice of elements, List(s); an entry is a string leaf or a reference.    *)

Ref(a) == [ref |-> a]
\* a nil map
NilRef == [ref |-> 0]
List(s) == [l |-> s]
\* the tree of a nil map
NilTree == [nil |-> TRUE]

\* the place of an object the garbage collector has reclaimed
Freed == [free |-> TRUE]

\* make(map...) or a slice literal: a new object at an address that holds no
\* object (the lowest reclaimed one, else a new one)
Alloc(h, obj) ==
    LET free == {a \in 1..Len(h) : h[a] = Freed}
    IN IF free = {}
       THEN [h |-> Append(h, obj), v |-> Ref(Len(h) + 1)]
       ELSE LET a == CHOOSE x \in free : \A y \in free : x <= y
            IN [h |-> [h EXCEPT ![a] = obj], v |-> Ref(a)]

\* the entries of an object
Children(obj) ==
    IF IsMap(obj) THEN {obj.m[k] : k \in DOMAIN obj.m}
    ELSE {obj.l[i] : i \in 1..Len(obj.l)}

\* the tree a value stands for (what reflect.DeepEqual compares)
RECURSIVE Deref(_, _)
Deref(h, v) ==
    IF ~IsRef(v) THEN v
    ELSE IF v = NilRef THEN NilTree
    ELSE LET obj == h[v.ref]
         IN IF IsMap(obj)
            THEN Map([k \in DOMAIN obj.m |-> Deref(h, obj.m[k])])
            ELSE List([i \in 1..Len(obj.l) |-> Deref(h, obj.l[i])])

\* the addresses of the objects a value reaches
RECURSIVE Reachable(_, _)
Reachable(h, v) ==
    IF ~IsRef(v) \/ v = NilRef THEN {}
    ELSE {v.ref} \cup UNION {Reachable(h, c) : c \in Children(h[v.ref])}

\* number of entries of all the objects
RECURSIVE EntryCount(_, _)
EntryCount(h, a) ==
    IF a > Len(h) THEN 0
    ELSE Cardinality(IF IsMap(h[a]) THEN DOMAIN h[a].m ELSE DOMAIN h[a].l)
         + EntryCount(h, a + 1)

----------------------------------------------------------------------------
(* Deep copier *)

\* the copy of a value: a leaf by value, a map or a slice as a new object
\* whose entries are copies, a nil map as nil
RECURSIVE CopyValue(_, _)
RECURSIVE CopyEntries(_, _, _, _)
RECURSIVE CopyItems(_, _, _, _)
CopyValue(h, v) ==
    IF ~IsRef(v) \/ v = NilRef THEN [h |-> h, v |-> v]
    ELSE LET obj == h[v.ref]
         IN IF IsMap(obj)
            THEN LET r == CopyEntries(h, obj.m, DOMAIN obj.m, EmptyFn)
                 IN Alloc(r.h, Map(r.acc))
            ELSE LET r == CopyItems(h, obj.l, 1, << >>)
                 IN Alloc(r.h, List(r.acc))

CopyEntries(h, f, keys, acc) ==
    IF keys = {} THEN [h |-> h, acc |-> acc]
    ELSE LET k == CHOOSE x \in keys : TRUE
             c == CopyValue(h, f[k])
         IN CopyEntries(c.h, f, keys \ {k}, MapSet(acc, k, c.v))

CopyItems(h, s, i, acc) ==
    IF i > Len(s) THEN [h |-> h, acc |-> acc]
    ELSE LET c == CopyValue(h, s[i])
         IN CopyItems(c.h, s, i + 1, Append(acc, c.v))

\* mutant: only the top-level map is copied, its entries are shared
deepCopyMap_Shallow(h, v) ==
    IF v = NilRef THEN [h |-> h, v |-> v] ELSE Alloc(h, h[v.ref])

\* deepCopyMap(m, log): a structurally independent copy of m
deepCopyMap(h, v) == CopyValue(h, v)

\* most entries the argument of deepCopyMap holds, over all its levels
MaxEntries == 3
\* most writes made to a copy
MaxEdits == 2

Keys == {"a", "b"}
\* what a caller puts in a tree: a leaf, an empty map, an empty slice
Put(h, kind) ==
    CASE kind = "leaf" -> [h |-> h, v |-> Str("x")]
      [] kind = "map" -> Alloc(h, EmptyMap)
      [] kind = "list" -> Alloc(h, List(<< >>))
PutKinds == {"leaf", "map", "list"}

NoCopy == [none |-> TRUE]

InitCopy ==
    /\ heap = << EmptyMap >>
    /\ original \in {Ref(1), NilRef}
    /\ copied = NoCopy
    /\ snapshot = NilTree
    /\ edits = 0
    /\ ExecIdle /\ ConcIdle /\ WorkIdle /\ HealthIdle /\ CaptureIdle /\ BuildIdle

\* the caller builds the argument: one more entry in one of its maps
PutEntry(a, k, kind) ==
    /\ copied = NoCopy
    /\ a \in Reachable(heap, original)
    /\ IsMap(heap[a])
    /\ k \notin DOMAIN heap[a].m
    /\ EntryCount(heap, 1) < MaxEntries
    /\ LET p == Put(heap, kind)
       IN heap' = [p.h EXCEPT ![a] = Map(MapSet(heap[a].m, k, p.v))]
    /\ UNCHANGED <<original, copied, snapshot, edits>>
    /\ UNCHANGED notCopyVars

\* the caller builds the argument: one more element in one of its slices
AppendItem(a, kind) ==
    /\ copied = NoCopy
    /\ a \in Reachable(heap, original)
    /\ ~IsMap(heap[a])
    /\ EntryCount(heap, 1) < MaxEntries
    /\ LET p == Put(heap, kind)
       IN heap' = [p.h EXCEPT ![a] = List(Append(heap[a].l, p.v))]
    /\ UNCHANGED <<original, copied, snapshot, edits>>
    /\ UNCHANGED notCopyVars

\* copied := deepCopyMap(original, log)
CopyMap ==
    /\ copied = NoCopy
    /\ LET c == deepCopyMap(heap, original)
       IN heap' = c.h /\ copied' = c.v
    /\ snapshot' = Deref(heap, original)
    /\ UNCHANGED <<original, edits>>
    /\ UNCHANGED notCopyVars

\* the caller replaces an entry of a map of the copy, at any depth
ReplaceEntry(a, k) ==
    /\ copied # NoCopy
    /\ edits < MaxEdits
    /\ a \in Reachable(heap, copied)
    /\ IsMap(heap[a])
    /\ k \in DOMAIN heap[a].m
    /\ heap' = [heap EXCEPT ![a] = Map(MapSet(heap[a].m, k, Str("modified")))]
    /\ edits' = edits + 1
    /\ UNCHANGED <<original, copied, snapshot>>
    /\ UNCHANGED notCopyVars

\* the caller replaces an element of a slice of the copy, at any depth
ReplaceItem(a, i) ==
    /\ copied # NoCopy
    /\ edits < MaxEdits
    /\ a \in Reachable(heap, copied)
    /\ ~IsMap(heap[a])
    /\ i \in 1..Len(heap[a].l)
    /\ heap' = [heap EXCEPT ![a] = List([heap[a].l EXCEPT ![i] = Str("modified")])]
    /\ edits' = edits + 1
    /\ UNCHANGED <<original, copied, snapshot>>
    /\ UNCHANGED notCopyVars

NextCopy ==
    \/ \E a \in 1..Len(heap), k \in Keys, kind \in PutKinds : PutEntry(a, k, kind)
    \/ \E a \in 1..Len(heap), kind \in PutKinds : AppendItem(a, kind)
    \/ CopyMap
    \/ \E a \in 1..Len(heap), k \in Keys : ReplaceEntry(a, k)
    \/ \E a \in 1..Len(heap), i \in 1..MaxEntries : ReplaceItem(a, i)

SpecCopy == InitCopy /\ [][NextCopy]_vars

\* C19: deepCopyMap is isolating: for any tree of nested maps and slices the
\* copy equals the original, and any mutation of the copy at any depth
\* (replacing a map entry or a slice element) leaves the original unchanged.
C19_DeepCopyIsolating ==
    copied # NoCopy =>
        /\ Deref(heap, original) = snapshot
        /\ edits = 0 => Deref(heap, copied) = snapshot
        /\ original = NilRef => copied = NilRef
        /\ Reachable(heap, copied) \cap Reachable(heap, original) = {}

C19_Witness ==
    /\ copied # NoCopy
    /\ edits = 2
    /\ IsMap(snapshot)
    /\ \E k1, k2 \in Keys :
          /\ k1 \in DOMAIN snapshot.m
          /\ IsMap(snapshot.m[k1])
          /\ k2 \in DOMAIN snapshot.m[k1].m
          /\ snapshot.m[k1].m[k2] = Str("x")
          /\ IsMap(Deref(heap, copied).m[k1])
          /\ Deref(heap, copied).m[k1].m[k2] = Str("modified")
    /\ Deref(heap, original) = snapshot

----------------------------------------------------------------------------
(* Payload builder over the heap: buildPayload, buildMapPayload, processValue *)

RECURSIVE BuildInto(_, _, _, _, _)
RECURSIVE processValue(_, _, _)
RECURSIVE ProcessItems(_, _, _, _, _)

\* the orders in which one for-range loop can visit the keys of a map: the
\* language leaves the order unspecified, any enumeration can happen
RangeOrders(keys) ==
    {o \in [1..Cardinality(keys) -> keys] :
        \A i, j \in 1..Cardinality(keys) : i # j => o[i] # o[j]}

\* one of these orders, for the callers whose maps hold no two keys that
\* render to the same text and no leaf that fails: every order then builds
\* the same tree
SomeOrder(keys) == CHOOSE o \in RangeOrders(keys) : TRUE

\* mutant: the rendered entries are written back into the definition itself
buildMapPayload_InPlace(h, a, params) ==
    BuildInto(h, a, SomeOrder(DOMAIN h[a].m), params, a)

\* buildMapPayload when the loop visits the keys of m in the given order
buildMapPayloadIn(h, a, order, params) ==
    LET fresh == Alloc(h, EmptyMap)
    IN BuildInto(fresh.h, a, order, params, fresh.v.ref)

\* buildMapPayload: a new map (result) receives every entry of m, its key
\* rendered and its value processed; m is only read
buildMapPayload(h, a, params) ==
    buildMapPayloadIn(h, a, SomeOrder(DOMAIN h[a].m), params)

\* the loop of buildMapPayload over the entries of m (at address a) that are
\* left to visit, in the order of the visit, writing into the map at address
\* res: an entry written under a key that is already there replaces it
BuildInto(h, a, order, params, res) ==
    IF order = << >> THEN [h |-> h, v |-> Ref(res), err |-> FALSE]
    ELSE LET k == Head(order)
             renderedKey == renderTemplate(k, params)
             processed == processValue(h, h[a].m[k], params)
         IN IF processed.err
            THEN [h |-> processed.h, v |-> NilRef, err |-> TRUE]
            ELSE BuildInto([processed.h EXCEPT
                               ![res] = Map(MapSet(@.m, renderedKey, processed.v))],
                           a, Tail(order), params, res)

\* processValue: an expression definition is evaluated, a value definition is
\* rendered when it is a string (and returned as it is otherwise), a nested
\* map is built, a slice is processed element by element into a new slice, a
\* string is rendered, anything else is returned as it is
processValue(h, v, params) ==
    IF IsRef(v) /\ v # NilRef
    THEN LET obj == h[v.ref]
         IN IF IsMap(obj)
            THEN IF HasExpression(obj)
                 THEN LET leaf == ExpressionLeaf(
                                      EvaluateCELValue(params, obj.m["expression"].s))
                      IN [h |-> h, v |-> leaf.v, err |-> leaf.err]
                 ELSE IF "value" \in DOMAIN obj.m
                 THEN IF "s" \in DOMAIN obj.m["value"]
                      THEN [h |-> h,
                            v |-> Str(renderTemplate(obj.m["value"].s, params)),
                            err |-> FALSE]
                      ELSE [h |-> h, v |-> obj.m["value"], err |-> FALSE]
                 ELSE buildMapPayload(h, v.ref, params)
            ELSE LET fresh == Alloc(h, List([i \in 1..Len(obj.l) |-> NilValue]))
                 IN ProcessItems(fresh.h, obj.l, 1, params, fresh.v.ref)
    ELSE IF "s" \in DOMAIN v
    THEN [h |-> h, v |-> Str(renderTemplate(v.s, params)), err |-> FALSE]
    ELSE [h |-> h, v |-> v, err |-> FALSE]

\* the loop of processValue over the elements of a slice
ProcessItems(h, s, i, params, res) ==
    IF i > Len(s) THEN [h |-> h, v |-> Ref(res), err |-> FALSE]
    ELSE LET processed == processValue(h, s[i], params)
         IN IF processed.err
            THEN [h |-> processed.h, v |-> NilRef, err |-> TRUE]
            ELSE ProcessItems([processed.h EXCEPT
                                  ![res] = List([@.l EXCEPT ![i] = processed.v])],
                              s, i + 1, params, res)

\* buildPayload: a map definition is built, any other definition is returned
\* as it is
buildPayload(h, build, params) ==
    IF IsRef(build) /\ build # NilRef /\ IsMap(h[build.ref])
    THEN buildMapPayload(h, build.ref, params)
    ELSE [h |-> h, v |-> build, err |-> FALSE]

\* buildPayload when the loop over the root map visits its keys in the
\* given order
buildPayloadIn(h, build, order, params) ==
    IF IsRef(build) /\ build # NilRef /\ IsMap(h[build.ref])
    THEN buildMapPayloadIn(h, build.ref, order, params)
    ELSE [h |-> h, v |-> build, err |-> FALSE]

\* the orders the loop over the root of a definition can take
RootOrders(h, build) ==
    IF IsRef(build) /\ build # NilRef /\ IsMap(h[build.ref])
    THEN RangeOrders(DOMAIN h[build.ref].m)
    ELSE {<< >>}

----------------------------------------------------------------------------
(* Concurrent Execute calls on one Executor.  The broker runs the handler   *)
(* on several tasks; a task is inside one Execute call at a time.  The      *)
(* configuration (a resource manifest and a payload build definition) is    *)
(* in the heap since start-up and every call reads it.                      *)

TaskNames == {"t1", "t2"}
EventIds == {"c-1", "c-2"}
Phases == {"Ready", "Pending"}
\* most Execute calls one task makes
MaxCalls == 2

\* the heap after NewExecutor: the manifest of the resource (objects 1-2) and
\* the build definition of the payload statusPayload (objects 3-8)
ConfigHeap ==
    << Map([apiVersion |-> Str("v1"), kind |-> Str("Namespace"), metadata |-> Ref(2)]),
       Map([name |-> Str("{{ .clusterId }}")]),
       Map([clusterId |-> Str("{{ .clusterId }}"), status |-> Ref(4),
            labels |-> Ref(5), items |-> Ref(7)]),
       Map([phase |-> Ref(8)]),
       Map([value |-> Ref(6)]),
       Map([tier |-> Str("gold")]),
       List(<< Str("{{ .clusterId }}") >>),
       Map([expression |-> Str("clusterPhase")]) >>
ManifestRoot == Ref(1)
BuildRoot == Ref(3)

IdleTask ==
    [pc |-> "idle", calls |-> 0, evtId |-> "", phase |-> "", params |-> NilRef,
     resultParams |-> NilRef, applied |-> NilTree, sent |-> NilValue]

InitConc ==
    /\ heap = ConfigHeap
    /\ templates = [manifest |-> Deref(ConfigHeap, ManifestRoot),
                    build |-> Deref(ConfigHeap, BuildRoot)]
    /\ tasks = [t \in TaskNames |-> IdleTask]
    /\ ExecIdle /\ CopyIdle /\ WorkIdle /\ HealthIdle /\ CaptureIdle /\ BuildIdle

\* mutant: the execution context is kept in a field of the Executor, so every
\* call works on the context created first
ParamsOf_ExecutorField(ts, t) ==
    LET made == {ts[u].params.ref : u \in {x \in TaskNames : ts[x].params # NilRef}}
    IN Ref(CHOOSE a \in made : \A b \in made : a <= b)

\* execCtx.Params of the call task t is in: execCtx is a local of Execute,
\* handed to every phase as an argument
ParamsOf(ts, t) == ts[t].params

\* garbage collection: an object that neither the configuration nor the
\* context or the result of a call reaches is reclaimed
Collect(h, ts) ==
    LET roots == {ManifestRoot, BuildRoot}
                 \cup {ts[t].params : t \in TaskNames}
                 \cup {ts[t].resultParams : t \in TaskNames}
        live == UNION {Reachable(h, r) : r \in roots}
    IN [a \in 1..Len(h) |-> IF a \in live THEN h[a] ELSE Freed]

\* heap[a][k] = v on a map
Write(h, a, k, v) == [h EXCEPT ![a] = Map(MapSet(@.m, k, v))]

\* Execute, setup: a new execution context and a new result, each with a map
\* of its own
Begin(t, id) ==
    /\ tasks[t].pc \in {"idle", "done"}
    /\ tasks[t].calls < MaxCalls
    /\ LET ctx == Alloc(heap, EmptyMap)
           res == Alloc(ctx.h, EmptyMap)
       IN /\ tasks' = [tasks EXCEPT ![t] =
                [IdleTask EXCEPT !.pc = "extract", !.calls = tasks[t].calls + 1,
                                 !.evtId = id, !.params = ctx.v,
                                 !.resultParams = res.v]]
          /\ heap' = Collect(res.h, tasks')
    /\ UNCHANGED templates
    /\ UNCHANGED notConcVars

\* phase 1: clusterId is extracted from the event; result.Params becomes the
\* map of the context
Extract(t) ==
    /\ tasks[t].pc = "extract"
    /\ tasks' = [tasks EXCEPT ![t].pc = "capture",
                              ![t].resultParams = ParamsOf(tasks, t)]
    /\ heap' = Collect(Write(heap, ParamsOf(tasks, t).ref, "clusterId",
                              Str(tasks[t].evtId)),
                        tasks')
    /\ UNCHANGED templates
    /\ UNCHANGED notConcVars

\* phase 2: the precondition captures clusterPhase from the API response
Capture(t, phase) ==
    /\ tasks[t].pc = "capture"
    /\ heap' = Write(heap, ParamsOf(tasks, t).ref, "clusterPhase", Str(phase))
    /\ tasks' = [tasks EXCEPT ![t].pc = "resource", ![t].phase = phase]
    /\ UNCHANGED templates
    /\ UNCHANGED notConcVars

\* phase 3: the manifest is deep-copied, the copy is rendered in place and
\* handed to the apply collaborator
RenderResource(t) ==
    /\ tasks[t].pc = "resource"
    /\ LET c == deepCopyMap(heap, ManifestRoot)
           metadata == c.h[c.v.ref].m["metadata"]
           name == c.h[metadata.ref].m["name"].s
           rendered == Write(c.h, metadata.ref, "name",
                             Str(renderTemplate(name, heap[ParamsOf(tasks, t).ref].m)))
       IN /\ tasks' = [tasks EXCEPT ![t].pc = "payload",
                                    ![t].applied = Deref(rendered, c.v)]
          /\ heap' = Collect(rendered, tasks')
    /\ UNCHANGED templates
    /\ UNCHANGED notConcVars

\* phase 4, buildPostPayloads: the payload is built, marshalled and bound
BuildPayload(t) ==
    /\ tasks[t].pc = "payload"
    /\ tasks' = [tasks EXCEPT ![t].pc = "post"]
    /\ LET p == ParamsOf(tasks, t).ref
           b == buildPayload(heap, BuildRoot, heap[p].m)
       IN /\ ~b.err
          /\ heap' = Collect(Write(b.h, p, "statusPayload",
                                    JSONString(Deref(b.h, b.v))),
                              tasks')
    /\ UNCHANGED templates
    /\ UNCHANGED notConcVars

\* phase 4, the post action: its body is the payload read from params; then
\* Execute returns
PostAction(t) ==
    /\ tasks[t].pc = "post"
    /\ tasks' = [tasks EXCEPT ![t].pc = "done",
                              ![t].sent = heap[ParamsOf(tasks, t).ref].m["statusPayload"]]
    /\ UNCHANGED <<heap, templates>>
    /\ UNCHANGED notConcVars

NextConc ==
    \/ \E t \in TaskNames, id \in EventIds : Begin(t, id)
    \/ \E t \in TaskNames : Extract(t)
    \/ \E t \in TaskNames, phase \in Phases : Capture(t, phase)
    \/ \E t \in TaskNames : RenderResource(t)
    \/ \E t \in TaskNames : BuildPayload(t)
    \/ \E t \in TaskNames : PostAction(t)

SpecConc == InitConc /\ [][NextConc]_vars

\* the payload a call builds from its own event and its own API response
OwnPayload(task) ==
    JSONString(Map([clusterId |-> Str(task.evtId),
                    status |-> Map([phase |-> Str(task.phase)]),
                    labels |-> Map([tier |-> Str("gold")]),
                    items |-> List(<< Str(task.evtId) >>)]))

\* the params a call has bound so far, from its own event and API response
OwnParams(task) ==
    LET extracted == IF task.pc = "extract" THEN EmptyFn
                     ELSE [clusterId |-> Str(task.evtId)]
        captured == IF task.pc \in {"extract", "capture"} THEN extracted
                    ELSE MapSet(extracted, "clusterPhase", Str(task.phase))
    IN IF task.pc \in {"post", "done"}
       THEN MapSet(captured, "statusPayload", OwnPayload(task))
       ELSE captured

\* C17: when several Execute calls run concurrently on one Executor, each owns
\* its execution context: the params of a call hold exactly what was bound
\* (extracted, captured, built as a payload) while processing its own event,
\* and so do its result and the inputs of its post action, under any
\* interleaving.
C17_ContextsIsolated ==
    \A t \in TaskNames :
        tasks[t].params # NilRef =>
            /\ heap[tasks[t].params.ref].m = OwnParams(tasks[t])
            /\ \A u \in TaskNames \ {t} : tasks[u].params # tasks[t].params
            /\ tasks[t].pc # "extract" => tasks[t].resultParams = tasks[t].params
            /\ tasks[t].pc \in {"payload", "post", "done"} =>
                  tasks[t].applied.m["metadata"].m["name"] = Str(tasks[t].evtId)
            /\ tasks[t].pc = "done" => tasks[t].sent = OwnPayload(tasks[t])

C17_Witness ==
    /\ tasks["t1"].pc = "done"
    /\ tasks["t2"].pc = "post"
    /\ tasks["t1"].evtId # tasks["t2"].evtId
    /\ tasks["t1"].phase # tasks["t2"].phase
    /\ tasks["t1"].params.ref > tasks["t2"].params.ref
    /\ tasks["t1"].sent = OwnPayload(tasks["t1"])

\* C18: processing events never mutates the shared configuration: after any
\* sequence of Execute calls the resource manifest and the payload build
\* definition deep-equal their values before the first call.
C18_ConfigUnchanged ==
    /\ Deref(heap, ManifestRoot) = templates.manifest
    /\ Deref(heap, BuildRoot) = templates.build
    /\ \A a \in 1..Len(ConfigHeap) : heap[a] = ConfigHeap[a]

C18_Witness ==
    /\ \A t \in TaskNames : tasks[t].pc = "done" /\ tasks[t].calls = MaxCalls
    /\ tasks["t1"].applied.m["metadata"].m["name"] = Str("c-1")
    /\ tasks["t2"].sent = OwnPayload(tasks["t2"])
    /\ Deref(heap, ManifestRoot).m["metadata"].m["name"] = Str("{{ .clusterId }}")

----------------------------------------------------------------------------
(* ManifestWork builder: Client.buildManifestWork(template, resources,      *)
(* consumerName) of the maestro client                                      *)

\* most workload manifests embedded in a template
MaxManifests == 2
\* longest list of resources to apply
MaxToApply == 2

\* a bare manifest of the given kind and name
Manifest(kind, name) ==
    Map([apiVersion |-> Str("v1"), kind |-> Str(kind),
         metadata |-> Map([name |-> Str(name)])])

\* workv1.Manifest values a template embeds: the raw JSON of a bare manifest
TemplateManifests ==
    {JSONString(Manifest("Namespace", "template-ns")),
     JSONString(Manifest("ConfigMap", "cluster-config"))}

\* transport_client.ResourceToApply values: a name and a manifest, or nil
ResourcesToApply ==
    {[Name |-> "skipped", Manifest |-> NilTree],
     [Name |-> "cm", Manifest |-> Manifest("ConfigMap", "explicit-cm")],
     [Name |-> "secret", Manifest |-> Manifest("Secret", "explicit-secret")]}

ConsumerNames == {"consumer-1", "cluster1"}

newTestTemplate(name, manifests) ==
    [Name |-> name, Namespace |-> "",
     Labels |-> [test |-> "true"], Annotations |-> [generation |-> "1"],
     Manifests |-> manifests]

\* the templates a caller starts from: the test template as it is, with a
\* namespace of its own, or with one more label and annotation
Templates ==
    LET t == newTestTemplate("test-mw", << >>)
    IN {t,
        [t EXCEPT !.Namespace = "template-namespace"],
        [t EXCEPT !.Labels = [test |-> "true", extra |-> "label"],
                  !.Annotations = [generation |-> "1", extra |-> "annotation"]]}

NoWork == [none |-> TRUE]

\* the manifests of the entries that carry one, in order, each marshalled
RECURSIVE ExplicitManifests(_, _)
ExplicitManifests(resources, k) ==
    IF k > Len(resources) THEN << >>
    ELSE IF resources[k].Manifest = NilTree
         THEN ExplicitManifests(resources, k + 1)
         ELSE << JSONString(resources[k].Manifest) >>
              \o ExplicitManifests(resources, k + 1)

\* mutant: the manifests of the resources are added to the template's
buildManifestWork_Append(template, resources, consumerName) ==
    [wrapper |-> [template EXCEPT !.Namespace = consumerName,
                                  !.Manifests = @ \o ExplicitManifests(resources, 1)],
     template |-> template]

\* mutant: the wrapper keeps the namespace of the template
buildManifestWork_KeepNamespace(template, resources, consumerName) ==
    LET explicit == ExplicitManifests(resources, 1)
    IN [wrapper |-> [template EXCEPT
                        !.Manifests = IF Len(explicit) > 0 THEN explicit ELSE @],
        template |-> template]

\* mutant: the wrapper is the template itself, written in place
buildManifestWork_InPlace(template, resources, consumerName) ==
    LET explicit == ExplicitManifests(resources, 1)
        written == [template EXCEPT
                        !.Namespace = consumerName,
                        !.Manifests = IF Len(explicit) > 0 THEN explicit ELSE @]
    IN [wrapper |-> written, template |-> written]

\* buildManifestWork: the wrapper is a deep copy of the template, put in the
\* consumer's namespace; the manifests of the resources replace the copy's when
\* there is at least one.  The call returns the wrapper and leaves the object
\* the template pointer refers to as the second component says.
buildManifestWork(template, resources, consumerName) ==
    LET explicit == ExplicitManifests(resources, 1)
    IN [wrapper |-> [template EXCEPT
                        !.Namespace = consumerName,
                        !.Manifests = IF Len(explicit) > 0 THEN explicit ELSE @],
        template |-> template]

InitWork ==
    /\ work \in {[template |-> t, before |-> t, resources |-> << >>,
                   consumerName |-> "", built |-> NoWork] : t \in Templates}
    /\ ExecIdle /\ HeapIdle /\ ConcIdle /\ CopyIdle /\ HealthIdle /\ CaptureIdle /\ BuildIdle

\* the caller embeds one more workload manifest in the template
EmbedManifest(m) ==
    /\ work.built = NoWork
    /\ Len(work.template.Manifests) < MaxManifests
    /\ work' = [work EXCEPT !.template.Manifests = Append(@, m),
                            !.before.Manifests = Append(@, m)]
    /\ UNCHANGED notWorkVars

\* the caller lists one more resource to apply
ListResource(r) ==
    /\ work.built = NoWork
    /\ Len(work.resources) < MaxToApply
    /\ work' = [work EXCEPT !.resources = Append(@, r)]
    /\ UNCHANGED notWorkVars

\* work, err := c.buildManifestWork(template, resources, consumerName)
BuildWork(consumerName) ==
    /\ work.built = NoWork
    /\ LET call == buildManifestWork(work.template, work.resources, consumerName)
       IN work' = [work EXCEPT !.consumerName = consumerName,
                               !.before = work.template,
                               !.built = call.wrapper,
                               !.template = call.template]
    /\ UNCHANGED notWorkVars

NextWork ==
    \/ \E m \in TemplateManifests : EmbedManifest(m)
    \/ \E r \in ResourcesToApply : ListResource(r)
    \/ \E c \in ConsumerNames : BuildWork(c)

SpecWork == InitWork /\ [][NextWork]_vars

\* the entries of the list that carry a manifest, in order
NonNilEntries == SelectSeq(work.resources, LAMBDA r : r.Manifest # NilTree)

\* C20: if the resources-to-apply list has at least one entry with a non-nil
\* manifest, the wrapper contains exactly the non-nil entries' manifests in
\* order (nil entries skipped, template manifests dropped); if the list is
\* empty or all its entries are nil, the wrapper contains exactly the
\* template's embedded manifests, unchanged and in order.
C20_WorkloadManifests ==
    work.built # NoWork =>
        IF \E k \in 1..Len(work.resources) : work.resources[k].Manifest # NilTree
        THEN /\ Len(work.built.Manifests) = Len(NonNilEntries)
             /\ \A k \in 1..Len(NonNilEntries) :
                   work.built.Manifests[k] = JSONString(NonNilEntries[k].Manifest)
        ELSE work.built.Manifests = work.template.Manifests

C20_Witness ==
    /\ work.built # NoWork
    /\ Len(work.template.Manifests) = 2
    /\ Len(work.resources) = 2
    /\ work.resources[1].Manifest = NilTree
    /\ work.resources[2].Manifest # NilTree
    /\ work.built.Manifests = << JSONString(work.resources[2].Manifest) >>

\* C21: the wrapper built by buildManifestWork has its namespace equal to the
\* consumer id supplied at call time, whatever the template's namespace, while
\* its name, labels and annotations equal the template's.
C21_WrapperMetadata ==
    work.built # NoWork =>
        /\ work.built.Namespace = work.consumerName
        /\ work.built.Name = work.before.Name
        /\ work.built.Labels = work.before.Labels
        /\ work.built.Annotations = work.before.Annotations

C21_Witness ==
    /\ work.built # NoWork
    /\ work.before.Namespace = "template-namespace"
    /\ work.built.Namespace = "cluster1"
    /\ work.built.Name = "test-mw"
    /\ Len(work.resources) >= 1

----------------------------------------------------------------------------
(* The health server (pkg/health/server.go).  The server holds one         *)
(* atomic.Bool; SetReady, IsReady and the two HTTP handlers are called     *)
(* from several goroutines.  A call is invoked, takes its one step on the  *)
(* shared flag (an atomic Store or Load) and returns; calls of different   *)
(* goroutines interleave between these steps.                              *)

\* the goroutines calling into the server: the adapter's main goroutine and
\* the http.Server goroutines serving probes
MaxCallers == 3
Callers == 1..MaxCallers

StatusOK == 200
StatusServiceUnavailable == 503

\* Response{Status, Message} as written to the ResponseWriter, with the code
HTTPResponse(code, status, message) ==
    [code |-> code, status |-> status, message |-> message]
NoHTTPResponse == HTTPResponse(0, "", "")

\* atomic.Bool: Store replaces the value, Load returns it
Store_Sticky(flag, value) == flag \/ value
Store(flag, value) == value
Load(flag) == flag

IsReady(flag) == Load(flag)

healthzHandler == HTTPResponse(StatusOK, "ok", "")

readyzHandler_AlwaysOK(flag) == HTTPResponse(StatusOK, "ok", "")
readyzHandler(flag) ==
    IF Load(flag)
    THEN HTTPResponse(StatusOK, "ok", "")
    ELSE HTTPResponse(StatusServiceUnavailable, "error", "not ready")

\* a goroutine that is not inside a call
IdleCaller ==
    [op |-> "", pc |-> "idle", arg |-> FALSE, overlapped |-> FALSE,
     observed |-> FALSE, resp |-> NoHTTPResponse,
     seen |-> FALSE, sequential |-> FALSE, last |-> FALSE, afterReady |-> FALSE]

\* the SetReady calls that have been invoked and have not returned
SetReadyInFlight(callers) ==
    {c \in Callers : callers[c].op = "SetReady" /\ callers[c].pc # "idle"}

\* NewServer: the zero atomic.Bool is false.  lastSet is the most recent
\* completed SetReady (none yet: the initial false), wasReady and
\* invokedTrue are the history of the flag
InitHealth ==
    /\ health = [ready |-> FALSE,
                 callers |-> [c \in Callers |-> IdleCaller],
                 lastSet |-> [value |-> FALSE, overlapped |-> FALSE],
                 wasReady |-> FALSE,
                 invokedTrue |-> FALSE]
    /\ ExecIdle /\ HeapIdle /\ ConcIdle /\ CopyIdle /\ WorkIdle /\ CaptureIdle /\ BuildIdle

\* a goroutine calls SetReady(value); the call overlaps every SetReady that
\* is in flight
CallSetReady(c, value) ==
    /\ health.callers[c].pc = "idle"
    /\ LET racing == SetReadyInFlight(health.callers)
       IN health' = [health EXCEPT
              !.callers = [d \in Callers |->
                  IF d = c
                  THEN [IdleCaller EXCEPT !.op = "SetReady", !.pc = "called",
                                          !.arg = value,
                                          !.overlapped = racing # {}]
                  ELSE IF d \in racing THEN [@[d] EXCEPT !.overlapped = TRUE]
                  ELSE @[d]],
              !.invokedTrue = @ \/ value]
    /\ UNCHANGED notHealthVars

\* s.ready.Store(ready)
StoreReady(c) ==
    /\ health.callers[c].op = "SetReady"
    /\ health.callers[c].pc = "called"
    /\ health' = [health EXCEPT
           !.ready = Store(@, health.callers[c].arg),
           !.wasReady = @ \/ Store(health.ready, health.callers[c].arg),
           !.callers[c].pc = "done"]
    /\ UNCHANGED notHealthVars

\* what a call knows of the flag's history at the moment of its Load
AtLoad(op) ==
    [IdleCaller EXCEPT
        !.op = op,
        !.pc = "done",
        !.seen = health.ready,
        !.sequential = /\ SetReadyInFlight(health.callers) = {}
                       /\ ~health.lastSet.overlapped,
        !.last = health.lastSet.value,
        !.afterReady = health.wasReady]

\* IsReady: return s.ready.Load().  The Load is the call's only access to
\* the server, so the call up to its Load is one step
LoadReady(c) ==
    /\ health.callers[c].pc = "idle"
    /\ health' = [health EXCEPT
           !.callers[c] = [AtLoad("IsReady") EXCEPT
                              !.observed = IsReady(health.ready)]]
    /\ UNCHANGED notHealthVars

\* readyzHandler, whole: the header, the Load, the status code and the body
ServeReadyz(c) ==
    /\ health.callers[c].pc = "idle"
    /\ LET resp == readyzHandler(health.ready)
       IN health' = [health EXCEPT
              !.callers[c] = [AtLoad("readyz") EXCEPT
                                 !.resp = resp,
                                 !.observed = resp.code = StatusOK]]
    /\ UNCHANGED notHealthVars

\* healthzHandler, whole
ServeHealthz(c) ==
    /\ health.callers[c].pc = "idle"
    /\ health' = [health EXCEPT
           !.callers[c] = [IdleCaller EXCEPT !.op = "healthz", !.pc = "done",
                                             !.seen = health.ready,
                                             !.resp = healthzHandler]]
    /\ UNCHANGED notHealthVars

\* the call returns to its goroutine; a returning SetReady becomes the most
\* recent completed one
ReturnCall(c) ==
    /\ health.callers[c].pc = "done"
    /\ health' = [health EXCEPT
           !.callers[c] = IdleCaller,
           !.lastSet = IF health.callers[c].op = "SetReady"
                       THEN [value |-> health.callers[c].arg,
                             overlapped |-> health.callers[c].overlapped]
                       ELSE @]
    /\ UNCHANGED notHealthVars

NextHealth ==
    \/ \E c \in Callers, value \in BOOLEAN : CallSetReady(c, value)
    \/ \E c \in Callers : StoreReady(c)
    \/ \E c \in Callers : LoadReady(c)
    \/ \E c \in Callers : ServeReadyz(c)
    \/ \E c \in Callers : ServeHealthz(c)
    \/ \E c \in Callers : ReturnCall(c)

SpecHealth == InitHealth /\ [][NextHealth]_vars

\* the calls of kind op that have taken their step and not yet returned
Served(op) ==
    {c \in Callers : health.callers[c].op = op /\ health.callers[c].pc = "done"}

\* C23: a liveness probe is answered 200 "ok" whatever the flag; a readiness
\* probe is answered 200 "ok" when the flag was true at the time of the
\* request and 503 "error" "not ready" when it was false, also when the flag
\* had been true before.
C23_ProbeResponses ==
    /\ \A c \in Served("healthz") :
           health.callers[c].resp = HTTPResponse(200, "ok", "")
    /\ \A c \in Served("readyz") :
           /\ health.callers[c].seen
                  => health.callers[c].resp = HTTPResponse(200, "ok", "")
           /\ ~health.callers[c].seen
                  => health.callers[c].resp = HTTPResponse(503, "error", "not ready")

\* a readiness probe answered 503 after the flag went from true back to
\* false, next to a liveness probe answered while the flag is false
C23_Witness ==
    /\ \E c \in Served("readyz") :
           /\ health.callers[c].afterReady
           /\ health.callers[c].resp.code = 503
    /\ \E c \in Served("healthz") : ~health.callers[c].seen

\* C24: the flag is one atomic register.  It is false on a new server; a
\* Load made by IsReady or by the readiness handler while no SetReady is in
\* flight observes the value of the most recent completed SetReady (the
\* initial false when there is none; calls that overlapped another SetReady
\* have no "most recent" among them); every Load, also one racing with
\* SetReady calls, observes the flag as it is, and observes true only after
\* a SetReady(true) was invoked.
C24_AtomicRegister ==
    /\ health.lastSet.value => health.invokedTrue
    /\ (~health.invokedTrue) => ~health.ready
    /\ \A c \in Served("IsReady") \union Served("readyz") :
           /\ health.callers[c].observed = health.callers[c].seen
           /\ health.callers[c].sequential
                  => health.callers[c].observed = health.callers[c].last
           /\ health.callers[c].observed => health.invokedTrue

\* a probe that raced with two overlapping SetReady calls of different
\* values, and observed true
C24_Witness ==
    \E c \in Served("readyz"), w1, w2 \in Callers :
        /\ health.callers[c].observed
        /\ ~health.callers[c].sequential
        /\ w1 # w2
        /\ {w1, w2} \subseteq SetReadyInFlight(health.callers)
        /\ health.callers[w1].arg /\ ~health.callers[w2].arg

----------------------------------------------------------------------------
(* Payloads and post actions *)

\* C25: when a post action runs, every payload of the configuration has been
\* built, serialized to JSON and stored as a string in params under its name,
\* so each post action of the event finds all the payloads of the post phase.
C25_PayloadsStoredBeforePostActions ==
    PostActionSteps # {} =>
        \A p \in 1..Len(config.Post.Payloads) :
            LET payload == config.Post.Payloads[p]
            IN /\ payload.Name \in DOMAIN execCtx.Params
               /\ execCtx.Params[payload.Name] =
                     [json |-> PayloadTree(payload.Build, execCtx.Params).v]
               /\ \E j \in PostPhaseEntries : \A k \in PostActionSteps : j < k

\* two post actions have run and both see the two payloads of the event
C25_Witness ==
    /\ Cardinality(PostActionSteps) = 2
    /\ Len(config.Post.Payloads) = 2
    /\ \A p \in 1..2 : config.Post.Payloads[p].Name \in DOMAIN execCtx.Params
    /\ execCtx.Params["statusPayload"] # execCtx.Params["auditPayload"]

----------------------------------------------------------------------------
(* The payload builder called on build definitions with expression leaves  *)
(* (SpecBuild).  The definition is a map in the heap; the caller adds      *)
(* leaves to it and then calls buildPayload with the params of the event.  *)

\* most leaves of a build definition
MaxLeaves == 2

LeafKeys == {"phase", "detail", "extra"}

\* the leaves: an expression that compiles (it fails at run time when the
\* param is unset), an expression that does not compile, the same two inside
\* a nested map and inside a slice, a value definition and a plain string
LeafKinds == {"phase", "invalid", "nestedPhase", "listInvalid", "literal", "text"}

ExpressionDef(expr) == Map([expression |-> Str(expr)])

\* allocates the leaf of a kind; the value to store under the key is .v
NewLeaf(h, kind) ==
    CASE kind = "phase" -> Alloc(h, ExpressionDef("clusterPhase"))
      [] kind = "invalid" -> Alloc(h, ExpressionDef("clusterPhase =="))
      [] kind = "nestedPhase" ->
            LET leaf == Alloc(h, ExpressionDef("clusterPhase"))
            IN Alloc(leaf.h, Map([inner |-> leaf.v]))
      [] kind = "listInvalid" ->
            LET leaf == Alloc(h, ExpressionDef("clusterPhase =="))
            IN Alloc(leaf.h, List(<< leaf.v >>))
      [] kind = "literal" -> Alloc(h, Map([value |-> Str("{{ .clusterId }}")]))
      [] OTHER -> [h |-> h, v |-> Str("static")]

\* execCtx.Params when the payloads are built: clusterId is always bound,
\* clusterPhase only when a precondition captured it
BuildParams ==
    {[clusterId |-> Str("c1")],
     [clusterId |-> Str("c1"), clusterPhase |-> Str("Ready")]}

NoBuild == [none |-> TRUE]
DefinitionRoot == Ref(1)

\* the build definitions by the shape of their root: a mapping of fields
\* (empty at first), a mapping with an expression key, a mapping with a value
\* key, a sequence, a string, a mapping with a templated key that renders to
\* another of its keys.  The root object, when there is one, is object 1
RootShapes ==
    {[shape |-> "fields", heap |-> << EmptyMap >>, root |-> DefinitionRoot],
     [shape |-> "expression", heap |-> << ExpressionDef("clusterPhase") >>,
      root |-> DefinitionRoot],
     [shape |-> "value", heap |-> << Map([value |-> Str("{{ .clusterId }}")]) >>,
      root |-> DefinitionRoot],
     [shape |-> "sequence", heap |-> << List(<< Str("{{ .clusterId }}") >>) >>,
      root |-> DefinitionRoot],
     [shape |-> "string", heap |-> << EmptyMap >>, root |-> Str("{{ .clusterId }}")],
     [shape |-> "colliding",
      heap |-> << Map(("{{ .clusterId }}" :> Str("templated")) @@
                      ("c1" :> Str("plain"))) >>,
      root |-> DefinitionRoot]}

InitBuild ==
    /\ \E r \in RootShapes, p \in BuildParams :
          /\ heap = r.heap
          /\ builder = [shape |-> r.shape, root |-> r.root, params |-> p,
                        leaves |-> EmptyFn, out |-> NoBuild, again |-> NoBuild]
    /\ ExecIdle /\ ConcIdle /\ CopyIdle /\ WorkIdle /\ HealthIdle /\ CaptureIdle

\* the configuration gives the definition one more leaf
AddLeaf(k, kind) ==
    /\ builder.out = NoBuild
    /\ builder.root = DefinitionRoot
    /\ IsMap(heap[1])
    /\ k \notin DOMAIN builder.leaves
    /\ Cardinality(DOMAIN builder.leaves) < MaxLeaves
    /\ LET leaf == NewLeaf(heap, kind)
       IN heap' = [leaf.h EXCEPT ![1] = Map(MapSet(@.m, k, leaf.v))]
    /\ builder' = [builder EXCEPT !.leaves = MapSet(@, k, kind)]
    /\ UNCHANGED notBuildVars

\* builtPayload, err := buildPayload(buildDef, evaluator, execCtx.Params, log)
CallBuildPayload ==
    /\ builder.out = NoBuild
    /\ \E order \in RootOrders(heap, builder.root) :
          LET b == buildPayloadIn(heap, builder.root, order, builder.params)
          IN /\ heap' = b.h
             /\ builder' = [builder EXCEPT !.out = [v |-> b.v, err |-> b.err]]
    /\ UNCHANGED notBuildVars

\* the next event builds the same definition with the same params
CallBuildPayloadAgain ==
    /\ builder.out # NoBuild
    /\ builder.again = NoBuild
    /\ \E order \in RootOrders(heap, builder.root) :
          LET b == buildPayloadIn(heap, builder.root, order, builder.params)
          IN /\ heap' = b.h
             /\ builder' = [builder EXCEPT !.again = [v |-> b.v, err |-> b.err]]
    /\ UNCHANGED notBuildVars

NextBuild ==
    \/ \E k \in LeafKeys, kind \in LeafKinds : AddLeaf(k, kind)
    \/ CallBuildPayload
    \/ CallBuildPayloadAgain

SpecBuild == InitBuild /\ [][NextBuild]_vars

\* the value of the expression clusterPhase: the param, null when it is unset
PhaseValue == 
    IF "clusterPhase" \in DOMAIN builder.params
    THEN builder.params["clusterPhase"] ELSE NilValue

\* the leaves that hold an expression whose evaluation reports an error of
\* any kind: it does not compile, or its key is missing at run time
ErroringLeaves ==
    {k \in DOMAIN builder.leaves :
        \/ builder.leaves[k] = "invalid"
        \/ builder.leaves[k] = "phase" /\ "clusterPhase" \notin DOMAIN builder.params}

\* the leaves that hold, at any depth, an expression that does not compile
UncompilableLeaves ==
    {k \in DOMAIN builder.leaves : builder.leaves[k] \in {"invalid", "listInvalid"}}

BuiltTree == Deref(heap, builder.out.v)

\* C26 as stated: an expression leaf never fails the build, whatever the
\* error of its evaluation, and contributes null.
C26_Original ==
    builder.out # NoBuild =>
        /\ ~builder.out.err
        /\ \A k \in ErroringLeaves : BuiltTree.m[k] = NilValue

\* C26: an expression leaf whose evaluation fails at run time (the error is
\* recorded in the result of EvaluateCEL) does not fail the build: the leaf
\* contributes the result's value, null.  An error returned by EvaluateCEL
\* itself (the expression does not compile) fails the build of the payload.
C26_ExpressionLeaf ==
    builder.out # NoBuild =>
        /\ builder.out.err <=> UncompilableLeaves # {}
        /\ ~builder.out.err =>
              \A k \in DOMAIN builder.leaves :
                  /\ builder.leaves[k] = "phase" => BuiltTree.m[k] = PhaseValue
                  /\ builder.leaves[k] = "nestedPhase"
                        => BuiltTree.m[k] = Map([inner |-> PhaseValue])

\* a payload built from an expression on a param that is not set, next to a
\* nested one: both leaves are null
C26_Witness ==
    /\ builder.out # NoBuild
    /\ ~builder.out.err
    /\ "clusterPhase" \notin DOMAIN builder.params
    /\ \E k1, k2 \in DOMAIN builder.leaves :
          /\ builder.leaves[k1] = "phase"
          /\ builder.leaves[k2] = "nestedPhase"
          /\ BuiltTree.m[k1] = NilValue
          /\ BuiltTree.m[k2] = Map([inner |-> NilValue])

----------------------------------------------------------------------------
(* captureFieldFromData called on paths given as text (SpecCapture).  A    *)
(* text is the sequence of its characters; a key of a map is a text too.   *)

\* longest path, in characters
MaxPath == 5

PathChars == {"a", "b", "."}

\* strings.Split(path, "."): the texts between the dots, in order; a text
\* without a dot (the empty text too) is one part
RECURSIVE SplitFrom(_, _, _, _)
SplitFrom(text, i, part, parts) ==
    IF i > Len(text) THEN Append(parts, part)
    ELSE IF text[i] = "."
    THEN SplitFrom(text, i + 1, << >>, Append(parts, part))
    ELSE SplitFrom(text, i + 1, Append(part, text[i]), parts)

Split(text) == SplitFrom(text, 1, << >>, << >>)

\* a map of two entries
Map2(k1, v1, k2, v2) == Map(MapSet(MapSet(EmptyFn, k1, v1), k2, v2))

\* the decoded response bodies the paths are followed in: no entry; a nested
\* map next to a scalar; an entry under the empty key; a key that holds a dot
ResponseData ==
    { EmptyMap,
      Map2(<<"a">>, Map2(<<"b">>, Str("a.b"), <<"a">>, Map2(<<"b">>, Str("a.a.b"),
                                                          <<"a">>, Str("a.a.a"))),
           <<"b">>, Str("b")),
      Map2(<<"a">>, Str("a"), << >>, Map2(<<"b">>, Str(".b"), << >>, Str(".."))),
      Map2(<<"a", ".", "b">>, Str("dotted"), <<"a">>, Map2(<<"a">>, Str("a.a"),
                                                         <<"a", "b">>, Str("a.ab"))) }

NoLookup == [none |-> TRUE]

InitCapture ==
    /\ lookup \in {[data |-> d, path |-> << >>, out |-> NoLookup] : d \in ResponseData}
    /\ ExecIdle /\ HeapIdle /\ ConcIdle /\ CopyIdle /\ WorkIdle /\ HealthIdle /\ BuildIdle

\* the configuration's capture.Field is one character longer
ExtendPath(c) ==
    /\ lookup.out = NoLookup
    /\ Len(lookup.path) < MaxPath
    /\ lookup' = [lookup EXCEPT !.path = Append(@, c)]
    /\ UNCHANGED notCaptureVars

\* value, err := captureFieldFromData(responseData, capture.Field)
CallCapture ==
    /\ lookup.out = NoLookup
    /\ lookup' = [lookup EXCEPT
           !.out = captureFieldFromData(lookup.data, Split(lookup.path))]
    /\ UNCHANGED notCaptureVars

NextCapture ==
    \/ \E c \in PathChars : ExtendPath(c)
    \/ CallCapture

SpecCapture == InitCapture /\ [][NextCapture]_vars

\* the dot-separated keys of the path
Segments == Split(lookup.path)

\* the first i keys can be followed from the root through maps
RECURSIVE NodeAt(_)
NodeAt(i) == IF i = 0 THEN lookup.data ELSE NodeAt(i - 1).m[Segments[i]]

RECURSIVE SegmentsPresent(_)
SegmentsPresent(i) ==
    \/ i = 0
    \/ /\ SegmentsPresent(i - 1)
       /\ IsMap(NodeAt(i - 1))
       /\ Segments[i] \in DOMAIN NodeAt(i - 1).m

\* C27: captureFieldFromData returns the value reached by following the keys
\* of the path through nested maps when every key is present, and an error
\* when a key is absent or the node it is looked up in is not a map.
C27_CaptureFollowsPath ==
    lookup.out # NoLookup =>
        /\ SegmentsPresent(Len(Segments))
              => /\ ~lookup.out.err
                 /\ lookup.out.value = NodeAt(Len(Segments))
        /\ ~SegmentsPresent(Len(Segments)) => lookup.out.err

\* a value captured two maps deep, through a path of three keys
C27_Witness ==
    /\ lookup.out # NoLookup
    /\ Len(Segments) = 3
    /\ ~lookup.out.err
    /\ lookup.out.value = Str("a.a.b")

----------------------------------------------------------------------------
(* Failures and the records of the phases *)

\* the data of the event, decoded
EventData == parseEventData(evt).value.m

\* the event parses and lacks the required parameter: extraction fails
RequiredParamMissing == Parses(evt) /\ "id" \notin DOMAIN EventData

\* C28: when parameter extraction fails Execute returns at once with
\* status=failed and phase=paramExtraction: no precondition, resource, payload
\* build or post action is executed, the result carries the execution context
\* and the params bound before the failure, and the handler returns nil.
C28_ExtractionFailureReturns ==
    (Returned /\ RequiredParamMissing) =>
        /\ result.Status = StatusFailed
        /\ result.Phase = PhaseParamExtraction
        /\ \A k \in 1..Len(trace) : trace[k].phase = PhaseParamExtraction
        /\ result.PreconditionResults = << >>
        /\ result.ResourceResults = << >>
        /\ result.PostActionResults = << >>
        /\ result.HasExecutionContext
        /\ result.Params = execCtx.Params
        /\ \A name \in DOMAIN result.Params :
              name = "region" /\ result.Params[name] = EventData["region"]
        /\ "region" \in DOMAIN EventData => "region" \in DOMAIN result.Params
        /\ handlerReturn.returned => handlerReturn.err = NilError

\* the handler has acknowledged an event without the required parameter, the
\* optional parameter extracted before the failure is in the result
C28_Witness ==
    /\ pc = "done"
    /\ RequiredParamMissing
    /\ handlerReturn.returned
    /\ handlerReturn.err = NilError
    /\ result.HasExecutionContext
    /\ "region" \in DOMAIN result.Params
    /\ result.Phase = PhaseParamExtraction

\* the positions of Execute after the precondition phase and after the
\* resource phase
AfterPreconditionPhase ==
    {"resources", "postActions", "postLoop", "postReturn", "return", "done"}
AfterResourcePhase == {"postActions", "postLoop", "postReturn", "return", "done"}

\* a step of the current event that starts after the given positions
StepWithin(positions) == pc \in positions /\ pc' \in positions

\* C29: a failure in a later phase leaves the records of the earlier phases
\* as they were: once the precondition phase has finished, no step of the same
\* event (a failing resource or post action included) changes
\* result.PreconditionResults, which are the records the phase returned; once
\* the resource phase has finished no step changes result.ResourceResults.
C29_EarlierRecordsKept ==
    /\ [](pc \in AfterPreconditionPhase
            => result.PreconditionResults = precondOutcome.Results)
    /\ [][/\ StepWithin(AfterPreconditionPhase)
                => result'.PreconditionResults = result.PreconditionResults
          /\ StepWithin(AfterResourcePhase)
                => result'.ResourceResults = result.ResourceResults]_vars

\* an event whose second resource failed to apply and whose post action
\* failed as well: the result holds the records of the three phases
C29_Witness ==
    /\ pc = "done"
    /\ Len(result.PreconditionResults) >= 1
    /\ result.PreconditionResults = precondOutcome.Results
    /\ Len(result.ResourceResults) = 2
    /\ result.ResourceResults[1].Status = StatusSuccess
    /\ result.ResourceResults[2].Status = StatusFailed
    /\ Len(result.PostActionResults) >= 1
    /\ result.PostActionResults[Len(result.PostActionResults)].Status = StatusFailed

\* the resource phase returned an apply error
ResourceApplyFailed ==
    \E k \in 1..Len(result.ResourceResults) :
        result.ResourceResults[k].Status = StatusFailed

\* C30 as stated, of the result Execute returns: when the resource phase
\* returns an apply error the result has status=failed and errorReason
\* "resource execution failed", it keeps the resource results recorded up to
\* the failure, the post phase has run, and the handler returns a non-nil
\* error.
C30_Original ==
    (Returned /\ ResourceApplyFailed) =>
        /\ result.Status = StatusFailed
        /\ result.ErrorReason = "resource execution failed"
        /\ result.ResourceResults[Len(result.ResourceResults)].Status = StatusFailed
        /\ \A k \in 1..(Len(result.ResourceResults) - 1) :
              result.ResourceResults[k].Status = StatusSuccess
        /\ PostPhaseEntries # {}
        /\ handlerReturn.returned => handlerReturn.err # NilError

\* C30: when the resource phase returns an apply error, the step of Execute
\* that receives it makes the status failed with errorReason "resource
\* execution failed"; the returned result has status=failed, keeps the
\* resource results recorded up to the failure, the post phase has run, and
\* the handler returns a non-nil error.  The returned errorReason is "resource
\* execution failed" unless the post phase failed too, and then it is "post
\* action execution failed" with the error of the post phase.
C30_ResourceFailure ==
    /\ [][(pc = "resources" /\ pc' # "resources" /\ phaseErr # NilError)
            => /\ result'.Status = StatusFailed
               /\ result'.ErrorReason = "resource execution failed"
               /\ result'.Error = phaseErr]_vars
    /\ []((Returned /\ ResourceApplyFailed) =>
            /\ result.Status = StatusFailed
            /\ result.ResourceResults[Len(result.ResourceResults)].Status = StatusFailed
            /\ \A k \in 1..(Len(result.ResourceResults) - 1) :
                  result.ResourceResults[k].Status = StatusSuccess
            /\ PostPhaseEntries # {}
            /\ IF result.Error.Phase = PhasePostActions
               THEN result.ErrorReason = "post action execution failed"
               ELSE result.ErrorReason = "resource execution failed"
            /\ handlerReturn.returned => handlerReturn.err # NilError)

\* the handler has returned an error for an event whose second resource
\* failed to apply and whose post action failed afterwards
C30_Witness ==
    /\ pc = "done"
    /\ Len(result.ResourceResults) = 2
    /\ result.ResourceResults[2].Status = StatusFailed
    /\ Len(result.PostActionResults) >= 1
    /\ result.ErrorReason = "post action execution failed"
    /\ handlerReturn.err # NilError

----------------------------------------------------------------------------
(* Evaluations, outcomes and captures of the precondition phase *)

\* the preconditions, by position, whose record shows a completed evaluation
\* of structured conditions or of an expression
EvaluatedPreconditions ==
    {k \in 1..Len(PrecondRecords) :
        /\ ~Trivial(config.Preconditions[k])
        /\ PrecondRecords[k].Status = StatusSuccess}

IsPrefix(s, t) == Len(s) <= Len(t) /\ \A i \in 1..Len(s) : s[i] = t[i]

\* C31: within one event the evaluations are append-only.  Every
\* precondition that evaluated its conditions or its expression without an
\* evaluation error has exactly one record, the records are in the order of
\* the preconditions, and a step of the event only appends to the sequence.
C31_EvaluationsAppendOnly ==
    /\ [](/\ Len(execCtx.Evaluations) = Cardinality(EvaluatedPreconditions)
          /\ \A k \in EvaluatedPreconditions :
                LET e == execCtx.Evaluations[
                             Cardinality({j \in EvaluatedPreconditions : j <= k})]
                IN /\ e.Name = config.Preconditions[k].Name
                   /\ e.Phase = PhasePreconditions
                   /\ e.Matched = PrecondRecords[k].Matched)
    /\ [][pc' # "idle" => /\ IsPrefix(execCtx.Evaluations, execCtx'.Evaluations)
                          /\ Len(execCtx'.Evaluations) <= Len(execCtx.Evaluations) + 1]_vars

\* three preconditions have been evaluated and the event has gone through a
\* failed post phase: the three records are in the context, in order
C31_Witness ==
    /\ pc = "done"
    /\ Len(execCtx.Evaluations) = 3
    /\ \A k \in 1..3 : execCtx.Evaluations[k].Name = config.Preconditions[k].Name
    /\ execCtx.Evaluations[1].Type # execCtx.Evaluations[2].Type
    /\ result.Status = StatusFailed
    /\ Len(result.PostActionResults) >= 1

----------------------------------------------------------------------------
(* The payload builder at the root of a build definition *)

\* the text {{ .clusterId }} rendered with the params of the build
RenderedClusterId == Str(builder.params["clusterId"].s)

\* C32: the rules of the payload builder apply to the root of the build
\* definition as to any node: a root mapping with an expression key is
\* replaced by the value of the expression, a root mapping with a value key
\* by the rendered value, a root sequence is processed element by element
\* and a root string is rendered.
C32_RulesApplyAtRoot ==
    (builder.out # NoBuild /\ ~builder.out.err) =>
        /\ builder.shape = "expression" => BuiltTree = PhaseValue
        /\ builder.shape = "value" => BuiltTree = RenderedClusterId
        /\ builder.shape = "sequence" => BuiltTree = List(<< RenderedClusterId >>)
        /\ builder.shape = "string" => BuiltTree = RenderedClusterId

\* the three shapes of a preconditions outcome
OutcomeAllMatched(o) ==
    /\ o.AllMatched /\ o.Error = NilError /\ o.NotMetReason = NoReason
    /\ Len(o.Results) = Len(config.Preconditions)
    /\ \A k \in 1..Len(o.Results) : o.Results[k].Matched
OutcomeFailed(o) ==
    ~o.AllMatched /\ o.Error # NilError /\ o.NotMetReason = NoReason
OutcomeNotMet(o) ==
    ~o.AllMatched /\ o.Error = NilError /\ o.NotMetReason # NoReason

\* every record but the last is matched, the last one is not
OnlyLastUnmatched(rs) ==
    /\ Len(rs) >= 1
    /\ ~rs[Len(rs)].Matched
    /\ \A k \in 1..(Len(rs) - 1) : rs[k].Matched

\* C33: the preconditions outcome has exactly one of three shapes: all
\* matched (no error, no reason, one matched record per configured
\* precondition), failed (an error, no reason) or not met (no error, a
\* reason); in the last two every record but the last is matched and the
\* last record is the only unmatched one.
C33_OutcomeShapes ==
    precondOutcome.set =>
        /\ Cardinality({shape \in {"allMatched", "failed", "notMet"} :
              \/ shape = "allMatched" /\ OutcomeAllMatched(precondOutcome)
              \/ shape = "failed" /\ OutcomeFailed(precondOutcome)
              \/ shape = "notMet" /\ OutcomeNotMet(precondOutcome)}) = 1
        /\ ~OutcomeAllMatched(precondOutcome) => OnlyLastUnmatched(precondOutcome.Results)

\* a failed outcome after two matched preconditions
C33_Witness ==
    /\ precondOutcome.set
    /\ OutcomeFailed(precondOutcome)
    /\ Len(precondOutcome.Results) = 3
    /\ precondOutcome.Results[1].Matched /\ precondOutcome.Results[2].Matched
    /\ precondOutcome.Results[3].Status = StatusFailed

\* the post phase of the event returned an error: a payload could not be
\* built or the last post action run failed
PostPhaseFailed ==
    \/ PayloadBuildFailed
    \/ /\ Len(result.PostActionResults) >= 1
       /\ result.PostActionResults[Len(result.PostActionResults)].Status = StatusFailed

\* C34: when more than one phase fails in one event the result describes the
\* last failure: a post-phase failure after a precondition or resource
\* failure replaces the error and errorReason of the result, and a post-phase
\* failure after a precondition mismatch gives status=failed together with
\* resourcesSkipped=true.
C34_LastFailureReported ==
    (Returned /\ PostPhaseFailed) =>
        /\ (PreconditionsFailed \/ ResourceApplyFailed) =>
              /\ result.Status = StatusFailed
              /\ result.Error.Phase = PhasePostActions
              /\ result.Error # precondOutcome.Error
              /\ result.ErrorReason = "post action execution failed"
        /\ PreconditionsNotMet =>
              /\ result.Status = StatusFailed
              /\ result.ResourcesSkipped
              /\ result.Error.Phase = PhasePostActions
              /\ result.ErrorReason = "post action execution failed"

\* an event whose precondition did not match and whose post action failed
C34_Witness ==
    /\ pc = "done"
    /\ PreconditionsNotMet
    /\ PostPhaseFailed
    /\ Len(result.PostActionResults) >= 1
    /\ result.ResourcesSkipped
    /\ result.Status = StatusFailed

----------------------------------------------------------------------------
(* A precondition with both structured conditions and an expression *)

HasBoth(precond) == Len(precond.Conditions) > 0 /\ precond.Expression # ""

\* C35: a precondition that has both a non-empty conditions list and an
\* expression evaluates only the structured conditions.  Its record carries
\* no CEL result, its matched flag is the conjunction of its condition
\* results, and the only evaluation recorded under its name is one record
\* of type conditions.
C35_ConditionsOnly ==
    \A k \in 1..Len(PrecondRecords) :
        (HasBoth(config.Preconditions[k]) /\ PrecondRecords[k].Status = StatusSuccess) =>
            LET r == PrecondRecords[k]
                own == SelectSeq(execCtx.Evaluations,
                                 LAMBDA e : e.Name = config.Preconditions[k].Name)
            IN /\ ~r.CELResult.set
               /\ Len(r.ConditionResults) = Len(config.Preconditions[k].Conditions)
               /\ r.Matched = (\A i \in 1..Len(r.ConditionResults) :
                                   r.ConditionResults[i].Matched)
               /\ Len(own) = 1
               /\ own[1].Type = "conditions"
               /\ own[1].Expression = ""
               /\ own[1].Matched = r.Matched

\* such a precondition has matched on its conditions in an event where its
\* expression would not have: clusterPhase was never bound
C35_Witness ==
    /\ pc = "done"
    /\ \E k \in 1..Len(PrecondRecords) :
          /\ HasBoth(config.Preconditions[k])
          /\ PrecondRecords[k].Status = StatusSuccess
          /\ PrecondRecords[k].Matched
          /\ "clusterPhase" \notin DOMAIN execCtx.Params

----------------------------------------------------------------------------
(* Captured values in params *)

Max(S) == CHOOSE x \in S : \A y \in S : y <= x

\* the value capture i of the k-th precondition reads in the response that
\* the k-th record holds
CaptureValue(rs, k, i) ==
    captureFieldFromData(JSONUnmarshalMap(rs[k].APIResponse).value,
                         config.Preconditions[k].Capture[i].Field).value

\* the k-th record holds a response that was decoded as a JSON object
Decoded(rs, k) == rs[k].APICallMade /\ ~JSONUnmarshalMap(rs[k].APIResponse).err

\* the records that captured the name n
CapturedBy(rs, n) == {k \in 1..Len(rs) : n \in DOMAIN rs[k].CapturedFields}

AllCaptureNames ==
    UNION {{config.Preconditions[k].Capture[i].Name :
               i \in 1..Len(config.Preconditions[k].Capture)} :
           k \in 1..Len(config.Preconditions)}

\* C36: the values a precondition captures are bound in declared capture
\* order, the last capture of a name that finds its field giving the value;
\* they are bound before the precondition's own conditions are evaluated, so
\* a condition on a captured name sees the captured value; they stay bound
\* in params through the rest of the event whatever the precondition or a
\* later step does, under the value of the last precondition that captured
\* the name; and a payload of the post phase that reads a captured name gets
\* that value.
C36_CapturesBound ==
    /\ [](execCtx.exists =>
            LET rs == PrecondRecords
            IN /\ \A k \in 1..Len(rs) :
                     /\ \A i \in 1..Len(config.Preconditions[k].Capture) :
                           LET c == config.Preconditions[k].Capture[i]
                           IN (Decoded(rs, k) /\ Found(rs, k, c) # {}) =>
                                 /\ c.Name \in DOMAIN rs[k].CapturedFields
                                 /\ rs[k].CapturedFields[c.Name] =
                                       CaptureValue(rs, k, Max(Found(rs, k, c)))
                     /\ \A i \in 1..Len(rs[k].ConditionResults) :
                           LET cr == rs[k].ConditionResults[i]
                           IN cr.Field \in DOMAIN rs[k].CapturedFields =>
                                 cr.FieldValue = rs[k].CapturedFields[cr.Field]
               /\ \A n \in AllCaptureNames :
                     CapturedBy(rs, n) # {} =>
                         /\ n \in DOMAIN execCtx.Params
                         /\ execCtx.Params[n] =
                               rs[Max(CapturedBy(rs, n))].CapturedFields[n]
                         /\ Returned => /\ n \in DOMAIN result.Params
                                        /\ result.Params[n] = execCtx.Params[n]
               /\ ("auditPayload" \in DOMAIN execCtx.Params
                   /\ CapturedBy(rs, "clusterPhase") # {}) =>
                     execCtx.Params["auditPayload"].json.m["phase"] =
                        rs[Max(CapturedBy(rs, "clusterPhase"))].CapturedFields["clusterPhase"])
    /\ [][(execCtx.exists /\ pc' # "idle") =>
             \A n \in AllCaptureNames :
                n \in DOMAIN execCtx.Params => n \in DOMAIN execCtx'.Params]_vars

\* an event has ended in a failed post action after a precondition that did
\* not match: the phase it captured is in params and in the audit payload,
\* and an earlier precondition bound one name twice, the second capture
\* giving the value
C36_Witness ==
    /\ pc = "done"
    /\ PreconditionsNotMet
    /\ PostPhaseFailed
    /\ "clusterPhase" \in DOMAIN execCtx.Params
    /\ "auditPayload" \in DOMAIN execCtx.Params
    /\ execCtx.Params["auditPayload"].json.m["phase"] = execCtx.Params["clusterPhase"]
    /\ \E k \in 1..Len(PrecondRecords) :
          /\ Len(config.Preconditions[k].Capture) = 2
          /\ Decoded(PrecondRecords, k)
          /\ Found(PrecondRecords, k, config.Preconditions[k].Capture[1]) = {1, 2}
          /\ CaptureValue(PrecondRecords, k, 1) # CaptureValue(PrecondRecords, k, 2)
          /\ execCtx.Params["seen"] = CaptureValue(PrecondRecords, k, 2)

----------------------------------------------------------------------------
(* A precondition response that is not a JSON object *)

\* the k-th record holds the response of a call that succeeded and whose
\* body does not decode as a JSON object
Undecodable(rs, k) ==
    rs[k].APICallMade /\ JSONUnmarshalMap(rs[k].APIResponse).err

\* C37: a precondition whose API call succeeds with a body that does not
\* decode as a JSON object is a hard failure, not a mismatch.  Its record is
\* failed with apiCallMade set and the raw response kept, nothing is
\* captured and nothing is evaluated, it is the last precondition attempted,
\* the outcome carries an error and no not-met reason, no resource is
\* applied and the result is failed without resourcesSkipped.
C37_UndecodableResponseFails ==
    LET rs == PrecondRecords
    IN \A k \in 1..Len(rs) :
          Undecodable(rs, k) =>
             /\ rs[k].Status = StatusFailed
             /\ rs[k].Error # NilError
             /\ ~rs[k].Matched
             /\ rs[k].CapturedFields = EmptyFn
             /\ rs[k].ConditionResults = << >>
             /\ ~rs[k].CELResult.set
             /\ \A i \in 1..Len(execCtx.Evaluations) :
                   execCtx.Evaluations[i].Name # rs[k].Name
             /\ k = Len(rs)
             /\ \A j \in StepsOf(PhasePreconditions) : trace[j].step <= k
             /\ StepsOf(PhaseResources) = {}
             /\ precondOutcome.set =>
                   /\ OutcomeFailed(precondOutcome)
                   /\ precondOutcome.Error.Phase = PhasePreconditions
                   /\ precondOutcome.Error.Step = rs[k].Name
             /\ Returned =>
                   /\ result.Status = StatusFailed
                   /\ ~result.ResourcesSkipped
                   /\ result.ResourceResults = << >>
                   /\ result.PreconditionResults = rs

\* the second of three preconditions got an array for a body: the event has
\* ended, the third precondition was not attempted, resources are configured
\* and none was applied
C37_Witness ==
    /\ pc = "done"
    /\ Len(config.Preconditions) = 3
    /\ Len(config.Resources) >= 1
    /\ Len(PrecondRecords) = 2
    /\ PrecondRecords[2].APICallMade
    /\ PrecondRecords[2].APIResponse = "[1]"
    /\ PrecondRecords[2].Status = StatusFailed
    /\ Len(config.Preconditions[2].Capture) > 0
    /\ Len(config.Preconditions[2].Conditions) > 0

----------------------------------------------------------------------------
(* The nil event *)

\* C38: Execute on a nil event returns a failed result without creating an
\* execution context, running any phase or calling any collaborator, and the
\* handler of CreateHandler returns a non-nil error for it (the error of the
\* result), because the phase of the result is not paramExtraction.
C38_NilEventNacked ==
    (Returned /\ evt.isNil) =>
        /\ result.Status = StatusFailed
        /\ result.Error # NilError
        /\ result.ErrorReason = "nil event received"
        /\ result.Phase # PhaseParamExtraction
        /\ ~result.HasExecutionContext
        /\ execCtx = NilContext
        /\ trace = << >>
        /\ results = << >>
        /\ precondOutcome = NoOutcome
        /\ result.PreconditionResults = << >>
        /\ result.ResourceResults = << >>
        /\ result.PostActionResults = << >>
        /\ handlerReturn.returned =>
              /\ handlerReturn.err # NilError
              /\ handlerReturn.err = result.Error

\* the handler has returned for a nil event, under a configuration that has
\* preconditions, resources and post actions
C38_Witness ==
    /\ pc = "done"
    /\ evt.isNil
    /\ handlerReturn.returned
    /\ handlerReturn.err # NilError
    /\ Len(config.Preconditions) >= 1
    /\ Len(config.Resources) >= 1
    /\ ~config.Post.isNil

----------------------------------------------------------------------------
(* Termination of Execute *)

\* the steps a phase can take under the configuration
ConfiguredSteps(phase) ==
    CASE phase = PhaseParamExtraction -> {1}
      [] phase = PhasePreconditions -> 1..Len(config.Preconditions)
      [] phase = PhaseResources -> 1..Len(config.Resources)
      [] phase = PhasePostActions ->
            IF config.Post.isNil THEN {0} ELSE 0..Len(config.Post.PostActions)

\* C39: every Execute call returns a result when each collaborator call
\* returns, and within one event no step is attempted twice: every attempted
\* step is a configured one, no two entries of the trace are the same step,
\* and no step follows a step of a later phase.
C39_ExecuteTerminates ==
    /\ [](/\ \A k \in 1..Len(trace) : trace[k].step \in ConfiguredSteps(trace[k].phase)
          /\ \A j, k \in 1..Len(trace) :
                j < k => /\ trace[j] # trace[k]
                         /\ Rank(trace[j].phase) <= Rank(trace[k].phase)
          /\ Returned => result.Status \in {StatusSuccess, StatusFailed})
    /\ (pc \notin {"idle", "done"}) ~> (pc = "done" /\ handlerReturn.returned)

\* an event has gone through every configured step, three preconditions,
\* two resources and two post actions, and the handler has returned
C39_Witness ==
    /\ pc = "done"
    /\ handlerReturn.returned
    /\ Len(config.Preconditions) = 3
    /\ Len(config.Resources) = 2
    /\ Len(config.Post.PostActions) = 2
    /\ Len(trace) = 9

----------------------------------------------------------------------------
(* Two builds of one definition *)

\* C40: payload building is deterministic.  Two runs of buildPayload on the
\* same build definition with the same params end alike, both with an error
\* or both with the same tree, also when two keys of a mapping render to
\* the same key.
C40_BuildDeterministic ==
    (builder.out # NoBuild /\ builder.again # NoBuild) =>
        /\ builder.out.err = builder.again.err
        /\ ~builder.out.err =>
              Deref(heap, builder.out.v) = Deref(heap, builder.again.v)

====
